---- MODULE Spec2Model ----
(***************************************************************************)
(* Matching, settlement and balance-freezing engine of the exchange        *)
(* (app/services/order_service.py behind app/api/v1/order.py).             *)
(*                                                                         *)
(* The state is the committed content of the store: users.balance,         *)
(* users_inventory.quantity, orders and transactions, plus the HTTP        *)
(* response of the last request.  Every action is one HTTP request: it     *)
(* runs the handler on a session opened over the committed store and ends  *)
(* with the session's commit or rollback.                                  *)
(*                                                                         *)
(* The handlers that provision the store (register, admin deposit,         *)
(* withdraw, create instrument) flush but never commit, and the session    *)
(* dependency only closes the session, so funds enter the committed store  *)
(* from outside the handlers: Init is a funded store with an empty book.   *)
(***************************************************************************)
EXTENDS Integers, Sequences, FiniteSets, TLC

\* ---------------------------------------------------------------- bounds
MaxOrders == 3      \* committed orders kept in the store
MaxPrice  == 2      \* prices of limit orders are 1..MaxPrice
MaxQty    == 2      \* order quantities are 1..MaxQty
InitCash  == 2      \* cash balance every user starts with
InitUnits == 1      \* inventory quantity every user starts with at least
MaxDeposit == 1     \* admin deposits and withdrawals move 1..MaxDeposit
MaxRaceOrders == 2  \* orders submitted while cancellations overlap with them
MaxLimit == 3       \* the limit of an order book query is 1..MaxLimit

\* ------------------------------------------------------------- constants
Users == {"alice", "bob"}
Instruments == {"MEMCOIN"}
base_instrument_ticker == "RUB"

ASK == "ask"
BID == "bid"
\* OrderStatusEnum.NEW (NEW is a reserved word)
NEW_ == "NEW"
EXECUTED == "EXECUTED"
PARTIALLY_EXECUTED == "PARTIALLY_EXECUTED"
CANCELLED == "CANCELLED"

\* Optional[int] price: None is falsy like 0, which conint(gt=0) excludes.
None == 0

HTTP_200_OK == 200
HTTP_400_BAD_REQUEST == 400
HTTP_403_FORBIDDEN == 403
HTTP_404_NOT_FOUND == 404
HTTP_422_UNPROCESSABLE_ENTITY == 422

Min(a, b) == IF a < b THEN a ELSE b

\* ----------------------------------------------------------------- state
VARIABLES
    balance,        \* users.balance : available cash per user
    inventory,      \* users_inventory.quantity per existing (user, ticker) row
    orders,         \* orders table; the id of an order is its index
    transactions,   \* transactions table, in insertion order
    request,        \* the last HTTP request
    response,       \* the HTTP response to it
    fills,          \* fills posted by the matching loop of the last submission
    sessions,       \* the requests in flight, each with what its session has read
    instruments     \* instruments table: the tickers listed

vars == <<balance, inventory, orders, transactions, request, response, fills, sessions,
          instruments>>

\* The relations a session reads and writes.
Store == [balance |-> balance, inventory |-> inventory,
          orders |-> orders, transactions |-> transactions,
          instruments |-> instruments]

\* ------------------------------------------------------------ repositories
\* InventoryRepository.get_by_user_and_ticker: row present?
HasInventory(s, user_id, ticker) == <<user_id, ticker>> \in DOMAIN s.inventory

\* UserRepository.get_by_id: user row present?
HasUser(s, user_id) == user_id \in DOMAIN s.balance

\* ORDER BY price alone: rows of equal price come back in any order.
OrderedBefore_price_only(s, direction, a, b) ==
    LET oa == s.orders[a]
        ob == s.orders[b]
    IN  IF oa.price # ob.price
        THEN IF direction = BID THEN oa.price > ob.price ELSE oa.price < ob.price
        ELSE TRUE

\* ORDER BY price (desc for BID, asc for ASK), created_at: a may precede b.
OrderedBefore(s, direction, a, b) ==
    LET oa == s.orders[a]
        ob == s.orders[b]
    IN  IF oa.price # ob.price
        THEN IF direction = BID THEN oa.price > ob.price ELSE oa.price < ob.price
        ELSE oa.created_at <= ob.created_at

\* The WHERE clause without the test of the status.
Resting_any_status(s, ticker, direction) ==
    { i \in 1..Len(s.orders) :
        /\ s.orders[i].instrument_ticker = ticker
        /\ s.orders[i].direction = direction }

\* The rows selected by get_orders' WHERE clause.
Resting(s, ticker, direction) ==
    { i \in 1..Len(s.orders) :
        /\ s.orders[i].instrument_ticker = ticker
        /\ s.orders[i].direction = direction
        /\ s.orders[i].status \in {NEW_, PARTIALLY_EXECUTED} }

\* get_orders that returns one row fewer than LIMIT allows.
get_orders_one_short(s, ticker, direction, limit) ==
    LET rows == Resting(s, ticker, direction)
        n    == Cardinality(rows)
        all  == { q \in [1..n -> rows] :
                    /\ \A i, j \in 1..n : i # j => q[i] # q[j]
                    /\ \A i, j \in 1..n : i < j => OrderedBefore(s, direction, q[i], q[j]) }
    IN  { SubSeq(q, 1, Min(limit - 1, n)) : q \in all }

\* OrderRepository.get_orders: every result the query may return (rows equal
\* in price and created_at come back in either order), cut at LIMIT.
get_orders(s, ticker, direction, limit) ==
    LET rows == Resting(s, ticker, direction)
        n    == Cardinality(rows)
        all  == { q \in [1..n -> rows] :
                    /\ \A i, j \in 1..n : i # j => q[i] # q[j]
                    /\ \A i, j \in 1..n : i < j => OrderedBefore(s, direction, q[i], q[j]) }
    IN  { SubSeq(q, 1, Min(limit, n)) : q \in all }


\* ------------------------------------------------------------ the session
\* AsyncSession.commit: the pending state becomes the committed one.
commit(committed, pending) == pending

\* A rollback that discards nothing (a session left in autocommit).
rollback_keeps_pending(committed, pending) == pending

\* AsyncSession.rollback: the pending state is discarded.
rollback(committed, pending) == committed

\* A close that commits what the session flushed.
close_commits(committed, pending) == pending

\* The end of get_db_session: session.close() without a commit ends the
\* session's transaction, and what the handler flushed is discarded.
close(committed, pending) == committed

\* --------------------------------------------------------- BalanceService
\* BalanceService.get_user_balance: the inventory rows and the cash balance
\* of the user, plus what the user's NEW and PARTIALLY_EXECUTED orders hold.
RECURSIVE frozen_in_orders(_, _, _, _)
frozen_in_orders(s, user_id, ticker, n) ==
    IF n = 0 THEN 0
    ELSE LET order == s.orders[n]
             add == IF order.user_id # user_id
                       \/ order.status \notin {NEW_, PARTIALLY_EXECUTED}
                    THEN 0
                    ELSE IF order.direction = ASK
                    THEN (IF order.instrument_ticker = ticker THEN order.amount ELSE 0)
                    ELSE (IF order.price # None /\ ticker = base_instrument_ticker
                          THEN order.amount * order.price ELSE 0)
         IN  add + frozen_in_orders(s, user_id, ticker, n - 1)

get_user_balance(s, user_id, ticker) ==
    (IF ticker = base_instrument_ticker THEN s.balance[user_id]
     ELSE IF <<user_id, ticker>> \in DOMAIN s.inventory
     THEN s.inventory[<<user_id, ticker>>] ELSE 0)
    + frozen_in_orders(s, user_id, ticker, Len(s.orders))

\* change_balance without the tests for a negative result.
change_balance_unchecked(s, user_id, ticker, amount) ==
    IF user_id \notin DOMAIN s.balance
    THEN [exc |-> "NotFoundError", message |-> "User not found", s |-> s]
    ELSE IF ticker = base_instrument_ticker
    THEN IF FALSE
         THEN [exc |-> "InsufficientBalanceError", message |-> "Insufficient balance", s |-> s]
         ELSE [exc |-> "", message |-> "",
               s |-> [s EXCEPT !.balance[user_id] = @ + amount]]
    ELSE IF <<user_id, ticker>> \notin DOMAIN s.inventory
    THEN [exc |-> "NotFoundError", message |-> "Instrument not found", s |-> s]
    ELSE IF FALSE
    THEN [exc |-> "InsufficientBalanceError", message |-> "Insufficient balance", s |-> s]
    ELSE [exc |-> "", message |-> "",
          s |-> [s EXCEPT !.inventory[<<user_id, ticker>>] = @ + amount]]

\* BalanceService.change_balance.  exc names the exception class raised.
change_balance(s, user_id, ticker, amount) ==
    IF user_id \notin DOMAIN s.balance
    THEN [exc |-> "NotFoundError", message |-> "User not found", s |-> s]
    ELSE IF ticker = base_instrument_ticker
    THEN IF s.balance[user_id] + amount < 0
         THEN [exc |-> "InsufficientBalanceError", message |-> "Insufficient balance", s |-> s]
         ELSE [exc |-> "", message |-> "",
               s |-> [s EXCEPT !.balance[user_id] = @ + amount]]
    ELSE IF <<user_id, ticker>> \notin DOMAIN s.inventory
    THEN [exc |-> "NotFoundError", message |-> "Instrument not found", s |-> s]
    ELSE IF s.inventory[<<user_id, ticker>>] + amount < 0
    THEN [exc |-> "InsufficientBalanceError", message |-> "Insufficient balance", s |-> s]
    ELSE [exc |-> "", message |-> "",
          s |-> [s EXCEPT !.inventory[<<user_id, ticker>>] = @ + amount]]

\* ---------------------------------------------------------- OrderService
Raise(msg, s) == [raised |-> TRUE, message |-> msg, s |-> s]
Return(s) == [raised |-> FALSE, message |-> "", s |-> s]

\* Transaction(...) row built by _execute_buy / _execute_sell.
Transaction(seller_id, buyer_id, ticker, amount, price) ==
    [user_from_id |-> seller_id, user_to_id |-> buyer_id,
     instrument_ticker |-> ticker, amount |-> amount, price |-> price]

\* _execute_buy that also takes the units from the resting seller's
\* inventory, which gave them up when the ASK was frozen.
_execute_buy_double_debit(s, seller_id, buyer_id, ticker, price, amount) ==
    IF ~HasUser(s, buyer_id) \/ ~HasUser(s, seller_id)
       \/ ~HasInventory(s, buyer_id, ticker)
    THEN Raise("User or inventory not found", s)
    ELSE LET total_cost == amount * price IN
         IF s.balance[buyer_id] < total_cost
         THEN Raise("Insufficient balance", s)
         ELSE LET b1 == [s.balance EXCEPT ![seller_id] = @ + total_cost]
                  b2 == [b1 EXCEPT ![buyer_id] = @ - total_cost]
                  i1 == [s.inventory EXCEPT ![<<seller_id, ticker>>] = @ - amount]
                  i2 == [i1 EXCEPT ![<<buyer_id, ticker>>] = @ + amount]
              IN  Return([s EXCEPT
                     !.transactions = Append(@, Transaction(seller_id, buyer_id, ticker, amount, price)),
                     !.balance = b2,
                     !.inventory = i2])

\* OrderService._execute_buy: an incoming BID takes from a resting ASK.
_execute_buy(s, seller_id, buyer_id, ticker, price, amount) ==
    IF ~HasUser(s, buyer_id) \/ ~HasUser(s, seller_id)
       \/ ~HasInventory(s, buyer_id, ticker)
    THEN Raise("User or inventory not found", s)
    ELSE LET total_cost == amount * price IN
         IF s.balance[buyer_id] < total_cost
         THEN Raise("Insufficient balance", s)
         ELSE LET b1 == [s.balance EXCEPT ![seller_id] = @ + total_cost]
                  b2 == [b1 EXCEPT ![buyer_id] = @ - total_cost]
              IN  Return([s EXCEPT
                     !.transactions = Append(@, Transaction(seller_id, buyer_id, ticker, amount, price)),
                     !.balance = b2,
                     !.inventory[<<buyer_id, ticker>>] = @ + amount])

\* _execute_sell that also debits the resting buyer, whose cash was already
\* taken when the BID was frozen.
_execute_sell_double_debit(s, seller_id, buyer_id, ticker, price, amount) ==
    IF ~HasUser(s, seller_id) \/ ~HasUser(s, buyer_id)
       \/ ~HasInventory(s, seller_id, ticker) \/ ~HasInventory(s, buyer_id, ticker)
    THEN Raise("User or inventory not found", s)
    ELSE IF s.inventory[<<seller_id, ticker>>] < amount
         THEN Raise("Insufficient balance", s)
         ELSE LET total_cost == amount * price
                  i1 == [s.inventory EXCEPT ![<<seller_id, ticker>>] = @ - amount]
                  i2 == [i1 EXCEPT ![<<buyer_id, ticker>>] = @ + amount]
                  b1 == [s.balance EXCEPT ![seller_id] = @ + total_cost]
                  b2 == [b1 EXCEPT ![buyer_id] = @ - total_cost]
              IN  Return([s EXCEPT
                     !.transactions = Append(@, Transaction(seller_id, buyer_id, ticker, amount, price)),
                     !.balance = b2,
                     !.inventory = i2])

\* OrderService._execute_sell: an incoming ASK gives to a resting BID.
_execute_sell(s, seller_id, buyer_id, ticker, price, amount) ==
    IF ~HasUser(s, seller_id) \/ ~HasUser(s, buyer_id)
       \/ ~HasInventory(s, seller_id, ticker) \/ ~HasInventory(s, buyer_id, ticker)
    THEN Raise("User or inventory not found", s)
    ELSE IF s.inventory[<<seller_id, ticker>>] < amount
         THEN Raise("Insufficient balance", s)
         ELSE LET total_cost == amount * price
                  i1 == [s.inventory EXCEPT ![<<seller_id, ticker>>] = @ - amount]
                  i2 == [i1 EXCEPT ![<<buyer_id, ticker>>] = @ + amount]
              IN  Return([s EXCEPT
                     !.transactions = Append(@, Transaction(seller_id, buyer_id, ticker, amount, price)),
                     !.balance[seller_id] = @ + total_cost,
                     !.inventory = i2])

\* _partially_execute_order that forgets to count the fill.
_partially_execute_order_no_filled(order, amount) ==
    IF order.amount < amount
    THEN [raised |-> TRUE, message |-> "Order amount insufficient", order |-> order]
    ELSE [raised |-> FALSE, message |-> "",
          order |-> [order EXCEPT
                        !.amount = @ - amount,
                        !.status = IF order.amount - amount = 0
                                   THEN EXECUTED ELSE PARTIALLY_EXECUTED]]

\* _partially_execute_order that decides the status before the decrement.
_partially_execute_order_stale_status(order, amount) ==
    IF order.amount < amount
    THEN [raised |-> TRUE, message |-> "Order amount insufficient", order |-> order]
    ELSE [raised |-> FALSE, message |-> "",
          order |-> [order EXCEPT
                        !.amount = @ - amount,
                        !.filled = @ + amount,
                        !.status = IF order.amount = 0
                                   THEN EXECUTED ELSE PARTIALLY_EXECUTED]]

\* _partially_execute_order that sets EXECUTED at amount 0 but otherwise
\* leaves the status as it was.
_partially_execute_order_keeps_status(order, amount) ==
    IF order.amount < amount
    THEN [raised |-> TRUE, message |-> "Order amount insufficient", order |-> order]
    ELSE [raised |-> FALSE, message |-> "",
          order |-> [order EXCEPT
                        !.amount = @ - amount,
                        !.filled = @ + amount,
                        !.status = IF order.amount - amount = 0
                                   THEN EXECUTED ELSE order.status]]

\* OrderService._partially_execute_order, on one Order object.
_partially_execute_order(order, amount) ==
    IF order.amount < amount
    THEN [raised |-> TRUE, message |-> "Order amount insufficient", order |-> order]
    ELSE [raised |-> FALSE, message |-> "",
          order |-> [order EXCEPT
                        !.amount = @ - amount,
                        !.filled = @ + amount,
                        !.status = IF order.amount - amount = 0
                                   THEN EXECUTED ELSE PARTIALLY_EXECUTED]]

\* _freeze_balance that reserves without looking at what is available.
_freeze_balance_unchecked(s, user_id, ticker, amount) ==
    IF ~HasUser(s, user_id) THEN Raise("User not found", s)
    ELSE IF ticker = base_instrument_ticker
    THEN Return([s EXCEPT !.balance[user_id] = @ - amount])
    ELSE IF ~HasInventory(s, user_id, ticker)
         THEN Raise("Inventory not found", s)
         ELSE Return([s EXCEPT !.inventory[<<user_id, ticker>>] = @ - amount])

\* OrderService._freeze_balance
_freeze_balance(s, user_id, ticker, amount) ==
    IF ~HasUser(s, user_id) THEN Raise("User not found", s)
    ELSE IF ticker = base_instrument_ticker
    THEN IF s.balance[user_id] < amount
         THEN Raise("Insufficient balance", s)
         ELSE Return([s EXCEPT !.balance[user_id] = @ - amount])
    ELSE IF ~HasInventory(s, user_id, ticker)
         THEN Raise("Inventory not found", s)
         ELSE IF s.inventory[<<user_id, ticker>>] < amount
              THEN Raise("Insufficient balance", s)
              ELSE Return([s EXCEPT !.inventory[<<user_id, ticker>>] = @ - amount])

\* OrderService._unfreeze_balance
_unfreeze_balance(s, user_id, ticker, amount) ==
    IF ~HasUser(s, user_id) THEN Raise("User not found", s)
    ELSE IF ticker = base_instrument_ticker
    THEN Return([s EXCEPT !.balance[user_id] = @ + amount])
    ELSE IF HasInventory(s, user_id, ticker)
         THEN Return([s EXCEPT !.inventory[<<user_id, ticker>>] = @ + amount])
         ELSE Return(s)

\* Order(...) object built at the start of a submission.  qty records the
\* submitted quantity (the table keeps only amount and filled).
Order(user_id, ticker, qty, price, direction) ==
    [user_id |-> user_id, instrument_ticker |-> ticker, amount |-> qty,
     filled |-> 0, price |-> price, direction |-> direction, status |-> NEW_,
     created_at |-> 0, qty |-> qty]


\* datetime.utcnow at the INSERT of an order: requests are served one after
\* the other, so every order row is stamped later than the rows before it.
utcnow(s) == Len(s.orders) + 1

\* session.add(new_order); flush: INSERT with created_at = utcnow().
session_add(s, new_order) ==
    [s EXCEPT !.orders = Append(@, [new_order EXCEPT !.created_at = utcnow(s)])]

\* Exit test that also stops at a resting ASK priced exactly at the limit.
buy_break_at_limit(new_order, order, price) ==
    new_order.amount = 0 \/ (price # None /\ order.price >= price)

\* Exit test that looks at the remaining amount only, never at the price.
buy_break_ignores_limit(new_order, order, price) ==
    new_order.amount = 0

\* Loop exit test of create_limit_buy_order (price None: market order).
buy_break(new_order, order, price) ==
    new_order.amount = 0 \/ (price # None /\ order.price > price)

\* Exit test that also stops at a resting BID priced exactly at the limit.
sell_break_at_limit(new_order, order, price) ==
    new_order.amount = 0 \/ (price # None /\ order.price <= price)

\* Loop exit test of create_limit_sell_order.
sell_break(new_order, order, price) ==
    new_order.amount = 0 \/ (price # None /\ order.price < price)

\* Settling at the incoming order's limit when it has one.
fill_price_incoming(order, new_order) ==
    IF new_order.price # None THEN new_order.price ELSE order.price

\* The price handed to _execute_buy / _execute_sell: the resting order's.
fill_price(order, new_order) == order.price

LoopResult(raised, message, s, new_order, posted) ==
    [raised |-> raised, message |-> message, s |-> s,
     new_order |-> new_order, fills |-> posted]

\* One pass of the loop body after the exit test: e is the outcome of
\* _execute_buy / _execute_sell, p1 and p2 those of the two
\* _partially_execute_order calls, in the order the code makes them.
loop_body(s, new_order, id, e, p1, p2, posted, fill) ==
    IF e.raised THEN LoopResult(TRUE, e.message, s, new_order, posted)
    ELSE IF p1.raised
    THEN LoopResult(TRUE, p1.message, e.s, new_order, Append(posted, fill))
    ELSE IF p2.raised
    THEN LoopResult(TRUE, p2.message, [e.s EXCEPT !.orders[id] = p1.order],
                    new_order, Append(posted, fill))
    ELSE LoopResult(FALSE, "", [e.s EXCEPT !.orders[id] = p1.order],
                    p2.order, Append(posted, fill))

\* The body of create_limit_buy_order's loop for the resting order id.
buy_body(s, new_order, id, order, count_to_buy, posted) ==
    loop_body(s, new_order, id,
              _execute_buy(s, order.user_id, new_order.user_id,
                           new_order.instrument_ticker, fill_price(order, new_order),
                           count_to_buy),
              _partially_execute_order(order, count_to_buy),
              _partially_execute_order(new_order, count_to_buy),
              posted, [resting |-> id, amount |-> count_to_buy])

\* The body of create_limit_sell_order's loop for the resting order id.
sell_body(s, new_order, id, order, count_to_sell, posted) ==
    loop_body(s, new_order, id,
              _execute_sell(s, new_order.user_id, order.user_id,
                            new_order.instrument_ticker, fill_price(order, new_order),
                            count_to_sell),
              _partially_execute_order(order, count_to_sell),
              _partially_execute_order(new_order, count_to_sell),
              posted, [resting |-> id, amount |-> count_to_sell])

\* for order in orderbook: ... of create_limit_buy_order, from position i.
RECURSIVE buy_loop(_, _, _, _, _)
buy_next(r, orderbook, i) ==
    IF r.raised THEN r ELSE buy_loop(r.s, r.new_order, orderbook, i + 1, r.fills)

buy_loop(s, new_order, orderbook, i, posted) ==
    IF i > Len(orderbook) THEN LoopResult(FALSE, "", s, new_order, posted)
    ELSE IF buy_break(new_order, s.orders[orderbook[i]], new_order.price)
    THEN LoopResult(FALSE, "", s, new_order, posted)
    ELSE buy_next(buy_body(s, new_order, orderbook[i], s.orders[orderbook[i]],
                           Min(s.orders[orderbook[i]].amount, new_order.amount), posted),
                  orderbook, i)

\* for order in orderbook: ... of create_limit_sell_order, from position i.
RECURSIVE sell_loop(_, _, _, _, _)
sell_next(r, orderbook, i) ==
    IF r.raised THEN r ELSE sell_loop(r.s, r.new_order, orderbook, i + 1, r.fills)

sell_loop(s, new_order, orderbook, i, posted) ==
    IF i > Len(orderbook) THEN LoopResult(FALSE, "", s, new_order, posted)
    ELSE IF sell_break(new_order, s.orders[orderbook[i]], new_order.price)
    THEN LoopResult(FALSE, "", s, new_order, posted)
    ELSE sell_next(sell_body(s, new_order, orderbook[i], s.orders[orderbook[i]],
                             Min(s.orders[orderbook[i]].amount, new_order.amount), posted),
                   orderbook, i)

ServiceResult(raised, message, s, order, posted) ==
    [raised |-> raised, message |-> message, s |-> s, order |-> order, fills |-> posted]

\* except Exception: rollback, store the order as CANCELLED, flush, re-raise.
submit_except(committed, pending, new_order, qty, message, posted) ==
    ServiceResult(TRUE, message,
                  session_add(rollback(committed, pending),
                              [new_order EXCEPT !.filled = 0, !.amount = qty,
                                                !.status = CANCELLED]),
                  [new_order EXCEPT !.filled = 0, !.amount = qty, !.status = CANCELLED],
                  posted)

\* session.add(new_order); flush; refresh; return new_order -- or the except
\* block when f, the outcome of the last call in the try block, raised.
submit_finish(committed, new_order, qty, l, f) ==
    IF f.raised
    THEN submit_except(committed, f.s, new_order, qty, f.message, l.fills)
    ELSE ServiceResult(FALSE, "", session_add(f.s, l.new_order), l.new_order, l.fills)

\* After the loop, but a market order left with residue is stored like a
\* limit order's instead of being refused.
buy_after_loop_market_rests(committed, new_order, qty, price, user_id, l) ==
    IF l.raised THEN submit_except(committed, l.s, new_order, qty, l.message, l.fills)
    ELSE IF l.new_order.status # EXECUTED
    THEN IF price # None
         THEN submit_finish(committed, new_order, qty, l,
                            _freeze_balance(l.s, user_id, base_instrument_ticker,
                                            l.new_order.amount * l.new_order.price))
         ELSE submit_finish(committed, new_order, qty, l, Return(l.s))
    ELSE submit_finish(committed, new_order, qty, l, Return(l.s))

\* After the loop, but the freeze takes the whole quantity times the limit,
\* not the residue.
buy_after_loop_freezes_qty(committed, new_order, qty, price, user_id, l) ==
    IF l.raised THEN submit_except(committed, l.s, new_order, qty, l.message, l.fills)
    ELSE IF l.new_order.status # EXECUTED
    THEN IF price # None
         THEN submit_finish(committed, new_order, qty, l,
                            _freeze_balance(l.s, user_id, base_instrument_ticker,
                                            qty * l.new_order.price))
         ELSE submit_finish(committed, new_order, qty, l,
                            Raise("Not enough orders for market buy", l.s))
    ELSE submit_finish(committed, new_order, qty, l, Return(l.s))

\* The part of create_limit_buy_order after the loop; l is the loop's outcome.
buy_after_loop(committed, new_order, qty, price, user_id, l) ==
    IF l.raised THEN submit_except(committed, l.s, new_order, qty, l.message, l.fills)
    ELSE IF l.new_order.status # EXECUTED
    THEN IF price # None
         THEN submit_finish(committed, new_order, qty, l,
                            _freeze_balance(l.s, user_id, base_instrument_ticker,
                                            l.new_order.amount * l.new_order.price))
         ELSE submit_finish(committed, new_order, qty, l,
                            Raise("Not enough orders for market buy", l.s))
    ELSE submit_finish(committed, new_order, qty, l, Return(l.s))

\* The part of create_limit_sell_order after the loop.
sell_after_loop(committed, new_order, qty, price, user_id, l) ==
    IF l.raised THEN submit_except(committed, l.s, new_order, qty, l.message, l.fills)
    ELSE IF l.new_order.status # EXECUTED
    THEN IF price # None
         THEN submit_finish(committed, new_order, qty, l,
                            _freeze_balance(l.s, user_id, new_order.instrument_ticker,
                                            l.new_order.amount))
         ELSE submit_finish(committed, new_order, qty, l,
                            Raise("Not enough orders for market sell", l.s))
    ELSE submit_finish(committed, new_order, qty, l, Return(l.s))

\* OrderService.create_limit_buy_order (price None: create_market_buy_order).
\* committed is the store at the start of the request, orderbook the result
\* of get_orders(ticker, ASK, limit=qty).
create_limit_buy_order(committed, orderbook, ticker, qty, price, user_id) ==
    buy_after_loop(committed, Order(user_id, ticker, qty, price, BID), qty, price, user_id,
                   buy_loop(committed, Order(user_id, ticker, qty, price, BID),
                            orderbook, 1, << >>))

\* OrderService.create_limit_sell_order (price None: create_market_sell_order).
create_limit_sell_order(committed, orderbook, ticker, qty, price, user_id) ==
    sell_after_loop(committed, Order(user_id, ticker, qty, price, ASK), qty, price, user_id,
                    sell_loop(committed, Order(user_id, ticker, qty, price, ASK),
                              orderbook, 1, << >>))

CancelResult(exc, message, s) == [exc |-> exc, message |-> message, s |-> s]

\* The end of cancel_order, but the cancelled order's residue is cleared.
cancel_finish_clears_amount(u, order_id) ==
    IF u.raised THEN CancelResult("NotFoundError", u.message, u.s)
    ELSE CancelResult("", "", [u.s EXCEPT !.orders[order_id].status = CANCELLED,
                                          !.orders[order_id].amount = 0])

\* The end of cancel_order: u is the outcome of _unfreeze_balance.
cancel_finish(u, order_id) ==
    IF u.raised THEN CancelResult("NotFoundError", u.message, u.s)
    ELSE CancelResult("", "", [u.s EXCEPT !.orders[order_id].status = CANCELLED])

\* cancel_order that refuses only EXECUTED and CANCELLED orders.
cancel_order_allows_partial(s, order_id, user_id) ==
    IF order_id \notin 1..Len(s.orders)
    THEN CancelResult("NotFoundError", "Order not found", s)
    ELSE IF s.orders[order_id].user_id # user_id
    THEN CancelResult("OrderExecutionError", "Order does not belong to user", s)
    ELSE IF s.orders[order_id].status \in {EXECUTED, CANCELLED}
    THEN CancelResult("OrderExecutionError",
                      "Order already executed/partially_executed/cancelled", s)
    ELSE IF s.orders[order_id].price = None
    THEN CancelResult("OrderExecutionError", "Cannot cancel market order", s)
    ELSE IF s.orders[order_id].direction = ASK
    THEN cancel_finish(_unfreeze_balance(s, user_id, s.orders[order_id].instrument_ticker,
                                         s.orders[order_id].amount), order_id)
    ELSE cancel_finish(_unfreeze_balance(s, user_id, base_instrument_ticker,
                                         s.orders[order_id].amount * s.orders[order_id].price),
                       order_id)

\* cancel_order that gives a BID back its amount instead of amount x price.
cancel_order_unfreezes_amount(s, order_id, user_id) ==
    IF order_id \notin 1..Len(s.orders)
    THEN CancelResult("NotFoundError", "Order not found", s)
    ELSE IF s.orders[order_id].user_id # user_id
    THEN CancelResult("OrderExecutionError", "Order does not belong to user", s)
    ELSE IF s.orders[order_id].status \in {PARTIALLY_EXECUTED, EXECUTED, CANCELLED}
    THEN CancelResult("OrderExecutionError",
                      "Order already executed/partially_executed/cancelled", s)
    ELSE IF s.orders[order_id].price = None
    THEN CancelResult("OrderExecutionError", "Cannot cancel market order", s)
    ELSE IF s.orders[order_id].direction = ASK
    THEN cancel_finish(_unfreeze_balance(s, user_id, s.orders[order_id].instrument_ticker,
                                         s.orders[order_id].amount), order_id)
    ELSE cancel_finish(_unfreeze_balance(s, user_id, base_instrument_ticker,
                                         s.orders[order_id].amount),
                       order_id)

\* OrderService.cancel_order.  exc names the exception class raised, if any.
cancel_order(s, order_id, user_id) ==
    IF order_id \notin 1..Len(s.orders)
    THEN CancelResult("NotFoundError", "Order not found", s)
    ELSE IF s.orders[order_id].user_id # user_id
    THEN CancelResult("OrderExecutionError", "Order does not belong to user", s)
    ELSE IF s.orders[order_id].status \in {PARTIALLY_EXECUTED, EXECUTED, CANCELLED}
    THEN CancelResult("OrderExecutionError",
                      "Order already executed/partially_executed/cancelled", s)
    ELSE IF s.orders[order_id].price = None
    THEN CancelResult("OrderExecutionError", "Cannot cancel market order", s)
    ELSE IF s.orders[order_id].direction = ASK
    THEN cancel_finish(_unfreeze_balance(s, user_id, s.orders[order_id].instrument_ticker,
                                         s.orders[order_id].amount), order_id)
    ELSE cancel_finish(_unfreeze_balance(s, user_id, base_instrument_ticker,
                                         s.orders[order_id].amount * s.orders[order_id].price),
                       order_id)

\* ------------------------------------------------------------ HTTP handlers
Response(status_code, detail, order_id) ==
    [status_code |-> status_code, detail |-> detail, order_id |-> order_id]

HandlerResult(store, response_, posted) ==
    [store |-> store, response |-> response_, fills |-> posted]

\* create_order that commits what the service left behind when it raised.
create_order_respond_commits_on_error(committed, r) ==
    IF r.raised
    THEN HandlerResult(commit(committed, r.s),
                       Response(HTTP_422_UNPROCESSABLE_ENTITY, r.message, 0), r.fills)
    ELSE HandlerResult(commit(committed, r.s),
                       IF r.order.status = CANCELLED
                       THEN Response(HTTP_422_UNPROCESSABLE_ENTITY, "ORDER CANCELLED", 0)
                       ELSE Response(HTTP_200_OK, "success", Len(r.s.orders)),
                       r.fills)

\* create_order from the service call's outcome r on: commit and answer, or
\* except OrderExecutionError: rollback and 422.
create_order_respond(committed, r) ==
    IF r.raised
    THEN HandlerResult(rollback(committed, r.s),
                       Response(HTTP_422_UNPROCESSABLE_ENTITY, r.message, 0), r.fills)
    ELSE HandlerResult(commit(committed, r.s),
                       IF r.order.status = CANCELLED
                       THEN Response(HTTP_422_UNPROCESSABLE_ENTITY, "ORDER CANCELLED", 0)
                       ELSE Response(HTTP_200_OK, "success", Len(r.s.orders)),
                       r.fills)

\* create_order without the test that the ticker is listed.
create_order_unlisted(committed, orderbook, order_data, user_id) ==
    IF order_data.direction = "BUY"
    THEN create_order_respond(committed,
            create_limit_buy_order(committed, orderbook, order_data.ticker,
                                   order_data.qty, order_data.price, user_id))
    ELSE create_order_respond(committed,
            create_limit_sell_order(committed, orderbook, order_data.ticker,
                                    order_data.qty, order_data.price, user_id))

\* POST /order : create_order.  Returns the committed store and the response.
create_order(committed, orderbook, order_data, user_id) ==
    IF order_data.ticker \notin committed.instruments
    THEN HandlerResult(committed, Response(HTTP_404_NOT_FOUND, "Instrument not found", 0),
                       << >>)
    ELSE IF order_data.direction = "BUY"
    THEN create_order_respond(committed,
            create_limit_buy_order(committed, orderbook, order_data.ticker,
                                   order_data.qty, order_data.price, user_id))
    ELSE create_order_respond(committed,
            create_limit_sell_order(committed, orderbook, order_data.ticker,
                                    order_data.qty, order_data.price, user_id))

\* cancel_order handler from the service call's outcome r on.  Only
\* OrderExecutionError is caught; a NotFoundError leaves the handler with the
\* status it carries and the session is closed uncommitted.
cancel_order_respond(committed, r, order_id) ==
    IF r.exc = ""
    THEN HandlerResult(commit(committed, r.s), Response(HTTP_200_OK, "success", order_id),
                       << >>)
    ELSE IF r.exc = "OrderExecutionError"
    THEN HandlerResult(rollback(committed, r.s),
                       Response(HTTP_400_BAD_REQUEST, r.message, 0), << >>)
    ELSE HandlerResult(rollback(committed, r.s),
                       Response(HTTP_404_NOT_FOUND, r.message, 0), << >>)

\* DELETE /order/{order_id} : cancel_order handler.
cancel_order_handler(committed, order_id, user_id) ==
    cancel_order_respond(committed, cancel_order(committed, order_id, user_id), order_id)

\* The admin balance handlers from change_balance's outcome r on: they
\* return SuccessResponse without a commit, or leave with the exception
\* (answered with the status_code the exception carries); either way the
\* session is closed uncommitted.
change_balance_respond(committed, r) ==
    IF r.exc = ""
    THEN HandlerResult(close(committed, r.s), Response(HTTP_200_OK, "success", 0), << >>)
    ELSE IF r.exc = "NotFoundError"
    THEN HandlerResult(close(committed, r.s),
                       Response(HTTP_404_NOT_FOUND, r.message, 0), << >>)
    ELSE HandlerResult(close(committed, r.s),
                       Response(HTTP_400_BAD_REQUEST, r.message, 0), << >>)

\* POST /admin/balance/deposit : deposit_balance.
deposit_balance(committed, balance_change) ==
    change_balance_respond(committed,
        change_balance(committed, balance_change.user_id, balance_change.ticker,
                       balance_change.amount))

\* POST /admin/balance/withdraw : withdraw_balance.
withdraw_balance(committed, balance_change) ==
    change_balance_respond(committed,
        change_balance(committed, balance_change.user_id, balance_change.ticker,
                       0 - balance_change.amount))

\* UserRepository.create_user: the new user (balance 0.0) and a
\* users_inventory row of quantity 0.0 for every instrument the session sees.
\* The user's id is fresh; the model names the user by it.
create_user(s, name) ==
    [s EXCEPT
       !.balance = [u \in DOMAIN s.balance \cup {name} |->
                       IF u = name THEN 0 ELSE s.balance[u]],
       !.inventory = [r \in DOMAIN s.inventory \cup ({name} \X s.instruments) |->
                         IF r[1] = name THEN 0 ELSE s.inventory[r]]]

\* InstrumentRepository.create_instrument: the new instrument and a
\* users_inventory row of quantity 0.0 for every user the session sees.
create_instrument(s, ticker) ==
    [s EXCEPT
       !.instruments = @ \cup {ticker},
       !.inventory = [r \in DOMAIN s.inventory \cup ((DOMAIN s.balance) \X {ticker}) |->
                         IF r[2] = ticker THEN 0 ELSE s.inventory[r]]]

\* POST /public/register : register.  The handler returns the new user and
\* its token without committing; the session is closed.
register(committed, user_data) ==
    HandlerResult(close(committed, create_user(committed, user_data.name)),
                  Response(HTTP_200_OK, "success", 0), << >>)

\* POST /admin/instrument : create_instrument.  A listed ticker is refused;
\* otherwise the handler returns SuccessResponse without committing.
create_instrument_handler(committed, instrument_data) ==
    IF instrument_data.ticker \in committed.instruments
    THEN HandlerResult(committed,
                       Response(HTTP_422_UNPROCESSABLE_ENTITY,
                                "Instrument already exists", 0), << >>)
    ELSE HandlerResult(close(committed,
                             create_instrument(committed, instrument_data.ticker)),
                       Response(HTTP_200_OK, "success", 0), << >>)

\* ------------------------------------------------------------------ actions
\* The users_inventory rows of the store: create_user adds a row for every
\* instrument and create_instrument one for every user, so there is one per
\* (user, instrument).
InventoryRows == Users \X Instruments

\* Requests served at the same time, each on its own pooled connection.
Connections == {"c1", "c2"}

Init ==
    /\ balance = [u \in Users |-> InitCash]
    /\ inventory = [r \in InventoryRows |->
                       IF r[1] = "alice" THEN InitUnits + 1 ELSE InitUnits]
    /\ orders = << >>
    /\ transactions = << >>
    /\ request = [op |-> "none"]
    /\ response = Response(HTTP_200_OK, "", 0)
    /\ fills = << >>
    /\ sessions = [c \in Connections |-> [open |-> FALSE]]
    /\ instruments = Instruments

Opposite(direction) == IF direction = "BUY" THEN ASK ELSE BID

\* The request req ends with handler outcome h: the store is what the handler
\* left committed, the response is the handler's.
Served(req, h) ==
    /\ balance' = h.store.balance
    /\ inventory' = h.store.inventory
    /\ orders' = h.store.orders
    /\ transactions' = h.store.transactions
    /\ instruments' = h.store.instruments
    /\ request' = req
    /\ response' = h.response
    /\ fills' = h.fills

\* One POST /order request, from authentication to the response.
CreateOrder ==
    /\ Len(orders) < MaxOrders
    /\ UNCHANGED sessions
    /\ \E user_id \in Users, direction \in {"BUY", "SELL"}, ticker \in instruments,
          qty \in 1..MaxQty, price \in {None} \cup (1..MaxPrice) :
       \E orderbook \in get_orders(Store, ticker, Opposite(direction), qty) :
          Served([op |-> "create_order", user_id |-> user_id, ticker |-> ticker,
                  direction |-> direction, qty |-> qty, price |-> price],
                 create_order(Store, orderbook,
                              [direction |-> direction, ticker |-> ticker,
                               qty |-> qty, price |-> price],
                              user_id))

\* One DELETE /order/{order_id} request.
CancelOrder ==
    /\ UNCHANGED sessions
    /\ \E user_id \in Users, order_id \in 1..(Len(orders) + 1) :
       Served([op |-> "cancel_order", user_id |-> user_id, order_id |-> order_id],
              cancel_order_handler(Store, order_id, user_id))

\* One POST /admin/balance/deposit request by an admin.
DepositBalance ==
    /\ UNCHANGED sessions
    /\ \E user_id \in Users, ticker \in Instruments \cup {base_instrument_ticker},
       amount \in 1..MaxDeposit :
       Served([op |-> "deposit_balance", user_id |-> user_id, ticker |-> ticker,
               amount |-> amount],
              deposit_balance(Store, [user_id |-> user_id, ticker |-> ticker,
                                      amount |-> amount]))

\* One POST /admin/balance/withdraw request by an admin.
WithdrawBalance ==
    /\ UNCHANGED sessions
    /\ \E user_id \in Users, ticker \in Instruments \cup {base_instrument_ticker},
       amount \in 1..MaxDeposit :
       Served([op |-> "withdraw_balance", user_id |-> user_id, ticker |-> ticker,
               amount |-> amount],
              withdraw_balance(Store, [user_id |-> user_id, ticker |-> ticker,
                                       amount |-> amount]))

Next == CreateOrder \/ CancelOrder

\* The order routes alone.
Spec == Init /\ [][Next]_vars

NextAdmin == CreateOrder \/ CancelOrder \/ DepositBalance \/ WithdrawBalance

\* The order routes together with the admin balance routes.
SpecAdmin == Init /\ [][NextAdmin]_vars

\* ------------------------------------------------- requests served at once
\* The engine is created without an isolation level and get_orders selects
\* without FOR UPDATE, so a session reads the last committed rows and keeps
\* them as objects; its flushes write, for every attribute it assigned, the
\* value it computed from those objects, over whatever is committed by then.

\* One orders row after the flush of a session that read it as old and left
\* it as new: UPDATE ... SET the assigned attributes WHERE id = ...
write_back_order(current, old, new) ==
    [current EXCEPT
        !.amount = IF new.amount # old.amount THEN new.amount ELSE @,
        !.filled = IF new.filled # old.filled THEN new.filled ELSE @,
        !.status = IF new.status # old.status THEN new.status ELSE @]

\* The committed store after the commit of a session that read snapshot and
\* holds pending: changed attributes are overwritten, new rows are inserted.
write_back(current, snapshot, pending) ==
    [balance |-> [u \in DOMAIN current.balance |->
                    IF pending.balance[u] # snapshot.balance[u]
                    THEN pending.balance[u] ELSE current.balance[u]],
     inventory |-> [r \in DOMAIN current.inventory |->
                      IF pending.inventory[r] # snapshot.inventory[r]
                      THEN pending.inventory[r] ELSE current.inventory[r]],
     orders |-> [i \in 1..Len(current.orders) |->
                   IF i <= Len(snapshot.orders)
                   THEN write_back_order(current.orders[i], snapshot.orders[i],
                                         pending.orders[i])
                   ELSE current.orders[i]]
                \o [i \in 1..(Len(pending.orders) - Len(snapshot.orders)) |->
                      [pending.orders[Len(snapshot.orders) + i]
                          EXCEPT !.created_at = utcnow(current)]],
     transactions |-> current.transactions
                      \o SubSeq(pending.transactions, Len(snapshot.transactions) + 1,
                                Len(pending.transactions)),
     instruments |-> current.instruments]

\* The outcome h of a handler that ran on snapshot, seen from the store.
written(current, snapshot, h) ==
    HandlerResult(write_back(current, snapshot, h.store),
                  IF h.response.status_code = HTTP_200_OK
                  THEN Response(HTTP_200_OK, "success",
                                Len(write_back(current, snapshot, h.store).orders))
                  ELSE h.response,
                  h.fills)

InFlight == { c \in Connections : sessions[c].open }

\* POST /order up to the SELECT of get_orders: the session has read the book.
BeginCreateOrder ==
    /\ Len(orders) + Cardinality(InFlight) < MaxOrders
    /\ \E c \in Connections \ InFlight, user_id \in Users, direction \in {"BUY", "SELL"},
          ticker \in instruments, qty \in 1..MaxQty, price \in {None} \cup (1..MaxPrice) :
       \E orderbook \in get_orders(Store, ticker, Opposite(direction), qty) :
          sessions' = [sessions EXCEPT ![c] =
                          [open |-> TRUE, op |-> "create_order",
                           user_id |-> user_id, orderbook |-> orderbook,
                           order_data |-> [direction |-> direction, ticker |-> ticker,
                                           qty |-> qty, price |-> price],
                           snapshot |-> Store]]
    /\ UNCHANGED <<balance, inventory, orders, transactions, request, response, fills,
                   instruments>>

\* The rest of POST /order: the matching loop on the objects the session
\* read, its flushes, and db.commit() or db.rollback().
EndCreateOrder ==
    \E c \in InFlight :
       /\ sessions[c].op = "create_order"
       /\ sessions' = [sessions EXCEPT ![c] = [open |-> FALSE]]
       /\ Served([op |-> "create_order", user_id |-> sessions[c].user_id,
                  ticker |-> sessions[c].order_data.ticker,
                  direction |-> sessions[c].order_data.direction,
                  qty |-> sessions[c].order_data.qty,
                  price |-> sessions[c].order_data.price],
                 written(Store, sessions[c].snapshot,
                         create_order(sessions[c].snapshot, sessions[c].orderbook,
                                      sessions[c].order_data, sessions[c].user_id)))

NextConcurrent == BeginCreateOrder \/ EndCreateOrder

\* POST /order requests on the connections, overlapping in time.
SpecConcurrent == Init /\ [][NextConcurrent]_vars

\* BeginCreateOrder while fewer than MaxRaceOrders orders are stored or on
\* their way.
BeginCreateOrderRace ==
    /\ Len(orders) + Cardinality({ c \in InFlight : sessions[c].op = "create_order" })
          < MaxRaceOrders
    /\ \E c \in Connections \ InFlight, user_id \in Users, direction \in {"BUY", "SELL"},
          ticker \in instruments, qty \in 1..MaxQty, price \in {None} \cup (1..MaxPrice) :
       \E orderbook \in get_orders(Store, ticker, Opposite(direction), qty) :
          sessions' = [sessions EXCEPT ![c] =
                          [open |-> TRUE, op |-> "create_order",
                           user_id |-> user_id, orderbook |-> orderbook,
                           order_data |-> [direction |-> direction, ticker |-> ticker,
                                           qty |-> qty, price |-> price],
                           snapshot |-> Store]]
    /\ UNCHANGED <<balance, inventory, orders, transactions, request, response, fills,
                   instruments>>

\* DELETE /order/{order_id} up to the SELECT of get_by_id: the session has
\* read the order and its owner.
BeginCancelOrder ==
    /\ \E c \in Connections \ InFlight, user_id \in Users, order_id \in 1..Len(orders) :
          sessions' = [sessions EXCEPT ![c] =
                          [open |-> TRUE, op |-> "cancel_order", user_id |-> user_id,
                           order_id |-> order_id, snapshot |-> Store]]
    /\ UNCHANGED <<balance, inventory, orders, transactions, request, response, fills,
                   instruments>>

\* The rest of DELETE /order/{order_id}: the tests and the unfreeze on the
\* objects the session read, its flush, and db.commit() or db.rollback().
EndCancelOrder ==
    \E c \in InFlight :
       /\ sessions[c].op = "cancel_order"
       /\ sessions' = [sessions EXCEPT ![c] = [open |-> FALSE]]
       /\ Served([op |-> "cancel_order", user_id |-> sessions[c].user_id,
                  order_id |-> sessions[c].order_id],
                 HandlerResult(
                    write_back(Store, sessions[c].snapshot,
                               cancel_order_handler(sessions[c].snapshot,
                                                    sessions[c].order_id,
                                                    sessions[c].user_id).store),
                    cancel_order_handler(sessions[c].snapshot, sessions[c].order_id,
                                         sessions[c].user_id).response,
                    << >>))

NextCancelRace ==
    BeginCreateOrderRace \/ EndCreateOrder \/ BeginCancelOrder \/ EndCancelOrder

\* POST /order and DELETE /order requests on the connections, overlapping in
\* time.
SpecCancelRace == Init /\ [][NextCancelRace]_vars

\* A listing of two instruments.
TwoInstruments == Instruments \cup {"DOGE"}

\* A store that lists two instruments, with a users_inventory row per user
\* and instrument.
InitTwoInstruments ==
    /\ balance = [u \in Users |-> InitCash]
    /\ inventory = [r \in Users \X TwoInstruments |->
                       IF r[1] = "alice" THEN InitUnits + 1 ELSE InitUnits]
    /\ orders = << >>
    /\ transactions = << >>
    /\ request = [op |-> "none"]
    /\ response = Response(HTTP_200_OK, "", 0)
    /\ fills = << >>
    /\ sessions = [c \in Connections |-> [open |-> FALSE]]
    /\ instruments = TwoInstruments

NextParallel == BeginCreateOrderRace \/ EndCreateOrder

\* POST /order requests on two instruments, overlapping in time.
SpecParallel == InitTwoInstruments /\ [][NextParallel]_vars

\* The states a request's transaction can be in at an await of its handler
\* before db.commit(): what it read, what the matching loop flushed, what
\* the service left flushed when it returned or raised.
SuspensionPoints(sess) ==
    IF sess.op = "cancel_order"
    THEN {sess.snapshot, cancel_order(sess.snapshot, sess.order_id, sess.user_id).s}
    ELSE IF sess.order_data.direction = "BUY"
    THEN {sess.snapshot,
          buy_loop(sess.snapshot,
                   Order(sess.user_id, sess.order_data.ticker, sess.order_data.qty,
                         sess.order_data.price, BID),
                   sess.orderbook, 1, << >>).s,
          create_limit_buy_order(sess.snapshot, sess.orderbook, sess.order_data.ticker,
                                 sess.order_data.qty, sess.order_data.price,
                                 sess.user_id).s}
    ELSE {sess.snapshot,
          sell_loop(sess.snapshot,
                    Order(sess.user_id, sess.order_data.ticker, sess.order_data.qty,
                          sess.order_data.price, ASK),
                    sess.orderbook, 1, << >>).s,
          create_limit_sell_order(sess.snapshot, sess.orderbook, sess.order_data.ticker,
                                  sess.order_data.qty, sess.order_data.price,
                                  sess.user_id).s}

\* A request in flight is cancelled at an await before db.commit() (the
\* client disconnected): the handler is left and get_db_session closes the
\* session.  No response is sent.
AbortRequest ==
    \E c \in InFlight :
       \E pending \in SuspensionPoints(sessions[c]) :
          /\ sessions' = [sessions EXCEPT ![c] = [open |-> FALSE]]
          /\ Served([op |-> "aborted", of |-> sessions[c].op,
                     user_id |-> sessions[c].user_id,
                     trades |-> Len(pending.transactions)
                                   - Len(sessions[c].snapshot.transactions)],
                    HandlerResult(close(Store, pending),
                                  Response(None, "client disconnected", 0), << >>))

NextAbort ==
    \/ BeginCreateOrderRace
    \/ EndCreateOrder
    \/ BeginCancelOrder
    \/ EndCancelOrder
    \/ AbortRequest

\* POST /order and DELETE /order requests, each of which may be aborted
\* before it commits.
SpecAbort == Init /\ [][NextAbort]_vars

\* aggregated[price] += amount on a defaultdict(int).
add_amount(aggregated, price, amount) ==
    [p \in DOMAIN aggregated \cup {price} |->
        (IF p \in DOMAIN aggregated THEN aggregated[p] ELSE 0)
           + (IF p = price THEN amount ELSE 0)]

\* for order in orders: aggregated[order.price] += order.amount, over the
\* first n rows of the query's result.
RECURSIVE aggregate_loop(_, _, _)
aggregate_loop(s, rows, n) ==
    IF n = 0 THEN [p \in {} |-> 0]
    ELSE add_amount(aggregate_loop(s, rows, n - 1),
                    s.orders[rows[n]].price, s.orders[rows[n]].amount)

\* Python's order of (price, qty) tuples.
TupleLeq(x, y) == x[1] < y[1] \/ (x[1] = y[1] /\ x[2] <= y[2])

\* sorted(items, reverse=reverse) of a set of (price, qty) tuples.
RECURSIVE sorted(_, _)
sorted_from(first, items, reverse) == <<first>> \o sorted(items \ {first}, reverse)

sorted(items, reverse) ==
    IF items = {} THEN << >>
    ELSE sorted_from(CHOOSE x \in items :
                        \A y \in items : IF reverse THEN TupleLeq(y, x) ELSE TupleLeq(x, y),
                     items, reverse)

OrderbookLevel(price, qty) == [price |-> price, qty |-> qty]

\* The levels made of the sorted items.
levels_of(items) == [i \in 1..Len(items) |-> OrderbookLevel(items[i][1], items[i][2])]

dict_items(aggregated) == { <<p, aggregated[p]>> : p \in DOMAIN aggregated }

\* aggregate_orders that sorts both sides in ascending order.
aggregate_orders_ascending(s, rows, direction) ==
    levels_of(sorted(dict_items(aggregate_loop(s, rows, Len(rows))), FALSE))

\* get_orderbook.aggregate_orders from the result rows of get_orders on.
aggregate_orders(s, rows, direction) ==
    levels_of(sorted(dict_items(aggregate_loop(s, rows, Len(rows))), direction = BID))

OrderbookResponse(status_code, detail, bid_levels, ask_levels) ==
    [status_code |-> status_code, detail |-> detail, order_id |-> 0,
     bid_levels |-> bid_levels, ask_levels |-> ask_levels]

\* GET /orderbook/{ticker} : get_instrument_by_ticker, then get_orderbook.
\* bids and asks are the results of get_orders(ticker, direction, limit).
get_orderbook(s, ticker, bids, asks) ==
    IF ticker \notin s.instruments
    THEN OrderbookResponse(HTTP_404_NOT_FOUND, "Instrument not found", << >>, << >>)
    ELSE OrderbookResponse(HTTP_200_OK, "", aggregate_orders(s, bids, BID),
                           aggregate_orders(s, asks, ASK))

\* One GET /orderbook/{ticker}?limit= request.
GetOrderbook ==
    /\ \E ticker \in TwoInstruments, limit \in 1..MaxLimit :
          \E bids \in get_orders(Store, ticker, BID, limit),
             asks \in get_orders(Store, ticker, ASK, limit) :
             /\ request' = [op |-> "get_orderbook", ticker |-> ticker, limit |-> limit]
             /\ response' = get_orderbook(Store, ticker, bids, asks)
    /\ UNCHANGED <<balance, inventory, orders, transactions, fills, sessions, instruments>>

NextPublic == CreateOrder \/ CancelOrder \/ GetOrderbook

\* The order routes together with the public order book query.
SpecPublic == Init /\ [][NextPublic]_vars

\* Names of users who register while the exchange runs.
NewUsers == {"carol"}

\* Tickers that satisfy InstrumentCreateRequest's pattern ^[A-Z]{2,10}$; the
\* base ticker is one of them.
ValidTickers == Instruments \cup {"DOGE", base_instrument_ticker}

\* One POST /public/register request.
Register ==
    /\ UNCHANGED sessions
    /\ \E name \in NewUsers :
          Served([op |-> "register", name |-> name],
                 register(Store, [name |-> name]))

\* One POST /admin/instrument request by an admin.
CreateInstrument ==
    /\ UNCHANGED sessions
    /\ \E ticker \in ValidTickers :
          Served([op |-> "create_instrument", ticker |-> ticker],
                 create_instrument_handler(Store, [ticker |-> ticker]))

\* One POST /order request for any valid ticker, listed or not.
CreateOrderAnyTicker ==
    /\ Len(orders) < MaxOrders
    /\ UNCHANGED sessions
    /\ \E user_id \in Users, direction \in {"BUY", "SELL"}, ticker \in ValidTickers,
          qty \in 1..MaxQty, price \in {None} \cup (1..MaxPrice) :
       \E orderbook \in get_orders(Store, ticker, Opposite(direction), qty) :
          Served([op |-> "create_order", user_id |-> user_id, ticker |-> ticker,
                  direction |-> direction, qty |-> qty, price |-> price],
                 create_order(Store, orderbook,
                              [direction |-> direction, ticker |-> ticker,
                               qty |-> qty, price |-> price],
                              user_id))

NextListing == Register \/ CreateInstrument \/ CreateOrderAnyTicker

\* Registration and instrument creation together with order submission.
SpecListing == Init /\ [][NextListing]_vars

\* ------------------------------------------------------------- properties
\* What the orders of s reserve for user_id in ticker: amount x price of cash
\* for a resting BID, amount units of its instrument for a resting ASK.
RECURSIVE FrozenUpTo(_, _, _, _)
FrozenUpTo(s, user_id, ticker, n) ==
    IF n = 0 THEN 0
    ELSE LET o == s.orders[n]
             held == IF o.user_id # user_id \/ o.status \notin {NEW_, PARTIALLY_EXECUTED}
                     THEN 0
                     ELSE IF o.direction = BID
                     THEN (IF ticker = base_instrument_ticker THEN o.amount * o.price ELSE 0)
                     ELSE (IF ticker = o.instrument_ticker THEN o.amount ELSE 0)
         IN  held + FrozenUpTo(s, user_id, ticker, n - 1)

Frozen(s, user_id, ticker) == FrozenUpTo(s, user_id, ticker, Len(s.orders))

Available(s, user_id, ticker) ==
    IF ticker = base_instrument_ticker THEN s.balance[user_id]
    ELSE IF HasInventory(s, user_id, ticker) THEN s.inventory[<<user_id, ticker>>]
    ELSE 0

RECURSIVE SumOver(_, _, _)
SumOver(s, ticker, us) ==
    IF us = {} THEN 0
    ELSE LET u == CHOOSE x \in us : TRUE
         IN  Available(s, u, ticker) + Frozen(s, u, ticker) + SumOver(s, ticker, us \ {u})

\* Available plus frozen holdings of ticker over all users.
TotalHoldings(s, ticker) == SumOver(s, ticker, Users)

Tickers == Instruments \cup {base_instrument_ticker}

\* C1 -- Conservation: a committed order submission or cancellation leaves,
\* for every ticker including the base ticker, the sum over all users of
\* available holdings plus holdings frozen in resting orders unchanged.
Conservation ==
    [][\A ticker \in Tickers : TotalHoldings(Store', ticker) = TotalHoldings(Store, ticker)]_vars

\* A committed submission that both traded and froze a residue.
ConservationWitness ==
    /\ request.op = "create_order"
    /\ response.status_code = HTTP_200_OK
    /\ Len(fills) > 0
    /\ orders[response.order_id].status = PARTIALLY_EXECUTED
    /\ \E i \in 1..Len(orders) : orders[i].status = CANCELLED

StoreUnchanged == UNCHANGED <<balance, inventory, orders, transactions>>

\* C2 -- A submission that fails commits nothing: trades, orders, cash and
\* inventory are as before the request, also when fills had been posted.
FailedSubmissionCommitsNothing ==
    [][(request'.op = "create_order" /\ response'.status_code # HTTP_200_OK)
          => StoreUnchanged]_vars

\* A limit submission rejected at the freeze of its residue, after a fill.
FailedSubmissionWitness ==
    /\ request.op = "create_order"
    /\ request.price # None
    /\ response.status_code = HTTP_422_UNPROCESSABLE_ENTITY
    /\ response.detail = "Insufficient balance"
    /\ Len(fills) > 0

RECURSIVE RestingQtyOf(_, _)
RestingQtyOf(s, ids) ==
    IF ids = {} THEN 0
    ELSE LET i == CHOOSE x \in ids : TRUE
         IN  s.orders[i].amount + RestingQtyOf(s, ids \ {i})

\* Total remaining amount resting on one side of the book.
RestingQty(s, ticker, direction) == RestingQtyOf(s, Resting(s, ticker, direction))

\* The request of the step is a market order larger than the opposite side.
MarketBeyondDepth ==
    /\ request'.op = "create_order"
    /\ request'.price = None
    /\ \E ticker \in Instruments :
          request'.qty > RestingQty(Store, ticker, Opposite(request'.direction))

\* C3 -- A market order whose quantity exceeds the resting quantity on the
\* opposite side persists no trade, leaves every existing order with its
\* amount, filled and status, and leaves every cash balance and inventory.
MarketBeyondDepthChangesNothing ==
    [][MarketBeyondDepth =>
          /\ transactions' = transactions
          /\ \A i \in 1..Len(orders) : i <= Len(orders') /\ orders'[i] = orders[i]
          /\ balance' = balance
          /\ inventory' = inventory]_vars

\* A market order that consumed the whole opposite side and was left over.
MarketBeyondDepthWitness ==
    /\ request.op = "create_order"
    /\ request.price = None
    /\ Len(fills) > 0
    /\ response.detail \in {"Not enough orders for market buy",
                            "Not enough orders for market sell"}


RECURSIVE FillsTotal(_, _)
FillsTotal(posted, n) == IF n = 0 THEN 0 ELSE posted[n].amount + FillsTotal(posted, n - 1)

\* The step's market order took the whole opposite side and has residue.
MarketLeftWithResidue ==
    /\ MarketBeyondDepth
    /\ \E ticker \in Instruments :
          FillsTotal(fills', Len(fills')) =
             RestingQty(Store, ticker, Opposite(request'.direction))

\* C4 -- After a market order with insufficient opposite-side depth the
\* committed store holds an order record of that submission with status
\* CANCELLED, filled = 0 and amount = qty.
MarketResidueStoredCancelled ==
    [][MarketLeftWithResidue =>
          /\ Len(orders') = Len(orders) + 1
          /\ orders'[Len(orders')].user_id = request'.user_id
          /\ orders'[Len(orders')].status = CANCELLED
          /\ orders'[Len(orders')].filled = 0
          /\ orders'[Len(orders')].amount = request'.qty]_vars

\* C5 -- A market order left with residue is answered 422 with the detail
\* text ORDER CANCELLED.
MarketResidueAnsweredOrderCancelled ==
    [][MarketLeftWithResidue =>
          /\ response'.status_code = HTTP_422_UNPROCESSABLE_ENTITY
          /\ response'.detail = "ORDER CANCELLED"]_vars

\* C6 -- The book is never crossed: every resting ASK of an instrument is
\* priced strictly above every resting BID of it.
BookNeverCrossed ==
    \A ticker \in Instruments :
       \A a \in Resting(Store, ticker, ASK), b \in Resting(Store, ticker, BID) :
          orders[a].price > orders[b].price

\* Both sides rest after a submission that traded and left a residue.
BookNeverCrossedWitness ==
    /\ \E ticker \in Instruments :
          Resting(Store, ticker, ASK) # {} /\ Resting(Store, ticker, BID) # {}
    /\ request.op = "create_order"
    /\ response.status_code = HTTP_200_OK
    /\ Len(fills) > 0

\* In the book before the step, resting order a has priority over b.
HasPriority(a, b) ==
    /\ a # b
    /\ orders[a].instrument_ticker = orders[b].instrument_ticker
    /\ orders[a].direction = orders[b].direction
    /\ orders[a].status \in {NEW_, PARTIALLY_EXECUTED}
    /\ \/ (orders[a].direction = ASK /\ orders[a].price < orders[b].price)
       \/ (orders[a].direction = BID /\ orders[a].price > orders[b].price)
       \/ (orders[a].price = orders[b].price /\ orders[a].created_at < orders[b].created_at)

\* C7 -- Price-time priority: a resting order is filled only after every
\* resting order of its side with a strictly better price, or the same
\* price and an earlier creation timestamp, has been filled completely.
PriceTimePriority ==
    [][request'.op = "create_order" =>
          \A k \in 1..Len(fills') :
             \A a \in 1..Len(orders) :
                HasPriority(a, fills'[k].resting) =>
                   \E j \in 1..(k - 1) :
                      /\ fills'[j].resting = a
                      /\ fills'[j].amount = orders[a].amount]_vars

\* One committed submission filled two resting orders of the same price.
PriceTimePriorityWitness ==
    /\ request.op = "create_order"
    /\ response.status_code = HTTP_200_OK
    /\ Len(fills) = 2
    /\ orders[fills[1].resting].price = orders[fills[2].resting].price
    /\ orders[fills[1].resting].created_at < orders[fills[2].resting].created_at

\* C8 -- Every persisted trade has amount > 0 and the price of the resting
\* order of its fill, not the incoming order's limit price.
TradeAtRestingPrice ==
    [][/\ Len(transactions') >= Len(transactions)
       /\ \A k \in 1..(Len(transactions') - Len(transactions)) :
             LET trade == transactions'[Len(transactions) + k] IN
             /\ k <= Len(fills')
             /\ trade.amount > 0
             /\ trade.amount = fills'[k].amount
             /\ trade.price = orders[fills'[k].resting].price]_vars

\* A committed limit order traded at a price other than its own limit.
TradeAtRestingPriceWitness ==
    /\ request.op = "create_order"
    /\ request.price # None
    /\ response.status_code = HTTP_200_OK
    /\ Len(fills) > 0
    /\ transactions[Len(transactions)].price # request.price

\* C9 -- Every committed order has amount >= 0, filled >= 0 and
\* amount + filled equal to the quantity it was submitted with.
AmountPlusFilledIsQty ==
    \A i \in 1..Len(orders) :
       /\ orders[i].amount >= 0
       /\ orders[i].filled >= 0
       /\ orders[i].amount + orders[i].filled = orders[i].qty

\* A partially filled order next to a cancelled one.
AmountPlusFilledIsQtyWitness ==
    /\ \E i \in 1..Len(orders) :
          orders[i].status = PARTIALLY_EXECUTED /\ orders[i].filled > 0
    /\ \E i \in 1..Len(orders) : orders[i].status = CANCELLED

\* C10 -- Every NEW or PARTIALLY_EXECUTED order has amount > 0; every
\* EXECUTED order has amount = 0 and filled equal to its submitted quantity.
StatusMatchesAmount ==
    \A i \in 1..Len(orders) :
       /\ orders[i].status \in {NEW_, PARTIALLY_EXECUTED} => orders[i].amount > 0
       /\ orders[i].status = EXECUTED =>
             orders[i].amount = 0 /\ orders[i].filled = orders[i].qty

\* An executed order of quantity above one next to a partially executed one.
StatusMatchesAmountWitness ==
    /\ \E i \in 1..Len(orders) : orders[i].status = EXECUTED /\ orders[i].qty > 1
    /\ \E i \in 1..Len(orders) : orders[i].status = PARTIALLY_EXECUTED

\* C11 -- In every committed state every user's cash balance is >= 0 and
\* every inventory quantity is >= 0, whatever deposits, withdrawals,
\* submissions and cancellations were served before.
NonNegativeHoldings ==
    /\ \A u \in DOMAIN balance : balance[u] >= 0
    /\ \A r \in DOMAIN inventory : inventory[r] >= 0

\* A withdrawal refused from a user whose cash is all spent or frozen, in a
\* store that has seen a trade and holds an emptied inventory row.
NonNegativeHoldingsWitness ==
    /\ request.op = "withdraw_balance"
    /\ request.ticker = base_instrument_ticker
    /\ response.status_code = HTTP_400_BAD_REQUEST
    /\ balance[request.user_id] = 0
    /\ Len(transactions) > 0
    /\ \E r \in DOMAIN inventory : inventory[r] = 0

\* C12 -- Market orders never rest: in every committed state no order
\* without a price has status NEW or PARTIALLY_EXECUTED, and the balance
\* query counts nothing as frozen on behalf of an order without a price.
MarketOrdersNeverRest ==
    \A i \in 1..Len(orders) :
       orders[i].price = None =>
          /\ orders[i].status \notin {NEW_, PARTIALLY_EXECUTED}
          /\ \A u \in Users, ticker \in Tickers :
                frozen_in_orders(Store, u, ticker, i)
                   = frozen_in_orders(Store, u, ticker, i - 1)

\* A committed market order in the store, next to a resting limit order.
MarketOrdersNeverRestWitness ==
    /\ \E i \in 1..Len(orders) : orders[i].price = None /\ orders[i].qty > 1
    /\ \E j \in 1..Len(orders) :
          orders[j].price # None /\ orders[j].status = PARTIALLY_EXECUTED

\* What the committed trades n+1.. of s add to user_id's holdings of ticker:
\* units bought minus units sold, or proceeds received minus prices paid.
RECURSIVE TradeEffect(_, _, _, _)
TradeEffect(s, user_id, ticker, n) ==
    IF n >= Len(s.transactions) THEN 0
    ELSE LET trade == s.transactions[n + 1]
             got == IF ticker = base_instrument_ticker
                    THEN (IF trade.user_from_id = user_id THEN trade.amount * trade.price ELSE 0)
                    ELSE (IF trade.user_to_id = user_id /\ trade.instrument_ticker = ticker
                          THEN trade.amount ELSE 0)
             gave == IF ticker = base_instrument_ticker
                     THEN (IF trade.user_to_id = user_id THEN trade.amount * trade.price ELSE 0)
                     ELSE (IF trade.user_from_id = user_id /\ trade.instrument_ticker = ticker
                           THEN trade.amount ELSE 0)
         IN  got - gave + TradeEffect(s, user_id, ticker, n + 1)

\* What the admin request of the step, answered with success, adds to
\* user_id's holdings of ticker.
AdminEffect(user_id, ticker) ==
    IF /\ request'.op \in {"deposit_balance", "withdraw_balance"}
       /\ response'.status_code = HTTP_200_OK
       /\ request'.user_id = user_id
       /\ request'.ticker = ticker
    THEN IF request'.op = "deposit_balance" THEN request'.amount ELSE 0 - request'.amount
    ELSE 0

\* C13 -- For every user and ticker the balance query result follows the
\* ledger: every request changes it by the admin deposit or withdrawal it
\* acknowledged plus the net effect of the trades it committed.
BalanceQueryFollowsLedger ==
    [][\A u \in Users, ticker \in Tickers :
          get_user_balance(Store', u, ticker) =
             get_user_balance(Store, u, ticker) + AdminEffect(u, ticker)
                + TradeEffect(Store', u, ticker, Len(transactions))]_vars

\* C14 -- No resting quantity is consumed twice: the trades a submission
\* commits against a resting order never take more than the amount that
\* order has left in the committed store, however submissions overlap.
RestingQuantityConsumedOnce ==
    [][Len(transactions') > Len(transactions) =>
          \A k \in 1..Len(fills') :
             fills'[k].amount <= orders[fills'[k].resting].amount]_vars

\* The last request placed a limit order that rests without having matched.
PlacedWithoutMatch ==
    /\ request.op = "create_order"
    /\ request.price # None
    /\ response.status_code = HTTP_200_OK
    /\ fills = << >>

\* The cash a resting order of the last request holds, and the units.
PlacedCash == IF request.direction = "BUY" THEN request.qty * request.price ELSE 0
PlacedUnits == IF request.direction = "SELL" THEN request.qty ELSE 0

\* C15 -- Round trip: a limit order that rests without matching takes
\* amount x price of cash (BID) or amount units (ASK) from its owner's
\* available holdings and nothing else, and its cancellation right after
\* gives exactly that back, so that every available cash balance and
\* inventory quantity is again what it was before the placement.
PlaceThenCancelRestores ==
    [][/\ PlacedWithoutMatch' =>
             /\ balance = [balance' EXCEPT ![request'.user_id] = @ + PlacedCash']
             /\ inventory =
                   [inventory' EXCEPT
                       ![<<request'.user_id, orders'[response'.order_id].instrument_ticker>>]
                          = @ + PlacedUnits']
       /\ (/\ PlacedWithoutMatch
           /\ request'.op = "cancel_order"
           /\ request'.order_id = response.order_id
           /\ request'.user_id = request.user_id) =>
             /\ response'.status_code = HTTP_200_OK
             /\ orders'[response.order_id].status = CANCELLED
             /\ balance' = [balance EXCEPT ![request.user_id] = @ + PlacedCash]
             /\ inventory' =
                   [inventory EXCEPT
                       ![<<request.user_id, orders[response.order_id].instrument_ticker>>]
                          = @ + PlacedUnits]]_vars

\* The newest order, a BID holding more than one unit of cash, was cancelled
\* by its owner, who has the starting cash again.
PlaceThenCancelRestoresWitness ==
    /\ request.op = "cancel_order"
    /\ response.status_code = HTTP_200_OK
    /\ request.order_id = Len(orders)
    /\ orders[request.order_id].status = CANCELLED
    /\ orders[request.order_id].direction = BID
    /\ orders[request.order_id].amount * orders[request.order_id].price > 1
    /\ balance[request.user_id] = InitCash

\* The step serves a cancel request for an existing order that is not NEW.
CancelInWrongState ==
    /\ request'.op = "cancel_order"
    /\ request'.order_id \in 1..Len(orders)
    /\ orders[request'.order_id].status \in {PARTIALLY_EXECUTED, EXECUTED, CANCELLED}

\* C16 -- Cancellation succeeds only for a NEW order: a cancel request on a
\* PARTIALLY_EXECUTED, EXECUTED or CANCELLED order is rejected with
\* OrderExecutionError (which the cancel route alone answers with
\* HTTP_400_BAD_REQUEST) and leaves every order, balance and inventory.
CancelOnlyWhenNew ==
    [][/\ CancelInWrongState =>
             /\ response'.status_code = HTTP_400_BAD_REQUEST
             /\ response'.detail \in
                   {"Order already executed/partially_executed/cancelled",
                    "Order does not belong to user"}
             /\ StoreUnchanged
       /\ (request'.op = "cancel_order" /\ response'.status_code = HTTP_200_OK) =>
             orders[request'.order_id].status = NEW_]_vars

\* The owner's cancel of a partially executed order was refused.
CancelOnlyWhenNewWitness ==
    /\ request.op = "cancel_order"
    /\ response.status_code = HTTP_400_BAD_REQUEST
    /\ response.detail = "Order already executed/partially_executed/cancelled"
    /\ request.order_id \in 1..Len(orders)
    /\ orders[request.order_id].status = PARTIALLY_EXECUTED
    /\ orders[request.order_id].user_id = request.user_id

\* C17 -- A cancel request by the owner on an order in the wrong state is
\* answered with HTTP 422 and the text
\* 'Order already executed/partially_executed/cancelled'.
CancelInWrongStateAnswered422 ==
    [][(CancelInWrongState /\ orders[request'.order_id].user_id = request'.user_id) =>
          /\ response'.status_code = HTTP_422_UNPROCESSABLE_ENTITY
          /\ response'.detail = "Order already executed/partially_executed/cancelled"]_vars

\* C18 -- A cancel request by a user who is not the order's owner is
\* answered 403, one for an order that does not exist is answered 404, and
\* neither changes an order, a balance or an inventory.
CancelByStrangerForbidden ==
    [][request'.op = "cancel_order" =>
          /\ (/\ request'.order_id \in 1..Len(orders)
              /\ orders[request'.order_id].user_id # request'.user_id) =>
                response'.status_code = HTTP_403_FORBIDDEN /\ StoreUnchanged
          /\ request'.order_id \notin 1..Len(orders) =>
                response'.status_code = HTTP_404_NOT_FOUND /\ StoreUnchanged]_vars

\* l is the outcome of a matching loop that ran to its end and left the
\* order of user_id with a residue whose freeze is refused.
ResidueNotCovered(l, user_id, ticker, direction) ==
    /\ ~l.raised
    /\ l.new_order.status # EXECUTED
    /\ IF direction = "BUY"
       THEN _freeze_balance(l.s, user_id, base_instrument_ticker,
                            l.new_order.amount * l.new_order.price).raised
       ELSE _freeze_balance(l.s, user_id, ticker, l.new_order.amount).raised

\* The step's request is a limit order that is left with a residue after
\* matching and whose owner cannot cover the freeze of that residue.
LimitResidueNotCovered ==
    /\ request'.op = "create_order"
    /\ request'.price # None
    /\ \E ticker \in Instruments :
       \E orderbook \in get_orders(Store, ticker, Opposite(request'.direction), request'.qty) :
          IF request'.direction = "BUY"
          THEN ResidueNotCovered(
                  buy_loop(Store, Order(request'.user_id, ticker, request'.qty,
                                        request'.price, BID), orderbook, 1, << >>),
                  request'.user_id, ticker, "BUY")
          ELSE ResidueNotCovered(
                  sell_loop(Store, Order(request'.user_id, ticker, request'.qty,
                                         request'.price, ASK), orderbook, 1, << >>),
                  request'.user_id, ticker, "SELL")

\* C19 -- A limit order whose residue after matching cannot be frozen fails
\* with OrderExecutionError (answered 422), no order record of it is
\* persisted and the fills made earlier in the submission are rolled back.
UncoveredResidueRollsBack ==
    [][LimitResidueNotCovered =>
          /\ response'.status_code = HTTP_422_UNPROCESSABLE_ENTITY
          /\ Len(orders') = Len(orders)
          /\ StoreUnchanged]_vars

\* A limit order filled the whole opposite side, kept a residue and was
\* refused for insufficient balance.
UncoveredResidueRollsBackWitness ==
    /\ request.op = "create_order"
    /\ request.price # None
    /\ response.status_code = HTTP_422_UNPROCESSABLE_ENTITY
    /\ response.detail = "Insufficient balance"
    /\ Len(fills) > 0
    /\ FillsTotal(fills, Len(fills)) < request.qty
    /\ \E ticker \in Instruments :
          Len(fills) = Cardinality(Resting(Store, ticker, Opposite(request.direction)))

\* Order r rests alone on its side with its whole quantity, and the step's
\* request is a limit order of the opposite direction with the same
\* quantity and price whose owner can cover it: cash for qty x price for a
\* BUY, qty units in an inventory row for a SELL.
EqualCross(r) ==
    /\ request'.op = "create_order"
    /\ request'.price # None
    /\ Resting(Store, orders[r].instrument_ticker, Opposite(request'.direction)) = {r}
    /\ orders[r].status = NEW_
    /\ orders[r].amount = request'.qty
    /\ orders[r].price = request'.price
    /\ IF request'.direction = "BUY"
       THEN balance[request'.user_id] >= request'.qty * request'.price
       ELSE /\ HasInventory(Store, request'.user_id, orders[r].instrument_ticker)
            /\ inventory[<<request'.user_id, orders[r].instrument_ticker>>] >= request'.qty

\* The step records exactly one trade, of the request's quantity and price,
\* and leaves both the resting order r and the new order EXECUTED.
OneTradeBothExecuted(r) ==
    /\ response'.status_code = HTTP_200_OK
    /\ Len(transactions') = Len(transactions) + 1
    /\ transactions'[Len(transactions')].amount = request'.qty
    /\ transactions'[Len(transactions')].price = request'.price
    /\ orders'[r].status = EXECUTED
    /\ Len(orders') = Len(orders) + 1
    /\ orders'[Len(orders')].status = EXECUTED

\* C20 -- A funded limit order crossing a lone resting order of the same
\* quantity and price gives exactly one trade (amount q, price p) and leaves
\* both orders EXECUTED, whichever direction arrived first.
EqualCrossTradesOnce ==
    [][\A r \in 1..Len(orders) : EqualCross(r) => OneTradeBothExecuted(r)]_vars

\* A SELL of two units met another user's resting BID of two at its price.
EqualCrossTradesOnceWitness ==
    /\ request.op = "create_order"
    /\ request.direction = "SELL"
    /\ request.qty > 1
    /\ response.status_code = HTTP_200_OK
    /\ Len(fills) = 1
    /\ orders[fills[1].resting].status = EXECUTED
    /\ orders[fills[1].resting].qty = request.qty
    /\ orders[fills[1].resting].price = request.price
    /\ orders[fills[1].resting].user_id # request.user_id
    /\ orders[response.order_id].status = EXECUTED

\* The resting ASKs of ticker priced at or below the limit p.
CrossingAsks(ticker, p) ==
    { r \in Resting(Store, ticker, ASK) : orders[r].price <= p }

\* The sum of amount x price over the resting orders ids.
RECURSIVE CostOf(_, _)
CostOf(s, ids) ==
    IF ids = {} THEN 0
    ELSE LET i == CHOOSE x \in ids : TRUE
         IN  s.orders[i].amount * s.orders[i].price + CostOf(s, ids \ {i})

\* The step's request is a limit BID that crosses ASKs of total amount d,
\* 0 < d < qty, from a buyer whose cash covers their cost and the residue.
PartialCrossBid(ids, d) ==
    /\ request'.op = "create_order"
    /\ request'.direction = "BUY"
    /\ request'.price # None
    /\ ids = CrossingAsks(request'.ticker, request'.price)
    /\ d = RestingQtyOf(Store, ids)
    /\ 0 < d /\ d < request'.qty
    /\ balance[request'.user_id] >=
          CostOf(Store, ids) + (request'.qty - d) * request'.price

\* The step fills d units, each at its resting order's price, and stores the
\* new order PARTIALLY_EXECUTED with filled = d and amount = qty - d.
FilledPartially(d) ==
    /\ response'.status_code = HTTP_200_OK
    /\ FillsTotal(fills', Len(fills')) = d
    /\ Len(transactions') = Len(transactions) + Len(fills')
    /\ \A k \in 1..Len(fills') :
          /\ transactions'[Len(transactions) + k].amount = fills'[k].amount
          /\ transactions'[Len(transactions) + k].price = orders[fills'[k].resting].price
    /\ Len(orders') = Len(orders) + 1
    /\ orders'[Len(orders')].status = PARTIALLY_EXECUTED
    /\ orders'[Len(orders')].filled = d
    /\ orders'[Len(orders')].amount = request'.qty - d

\* The resting orders ids that do not belong to user_id.
OfOthers(ids, user_id) == { r \in ids : orders[r].user_id # user_id }

\* C21 as stated -- A funded limit BID of qty at p against crossing ASK
\* depth d < qty fills d units at the resting prices, is stored
\* PARTIALLY_EXECUTED with filled = d and amount = qty - d, and the buyer's
\* available cash decreases by the cost of all the fills plus (qty - d) x p.
PartialBidPaysEveryFill ==
    [][\A ids \in SUBSET (1..Len(orders)), d \in 1..MaxQty :
          PartialCrossBid(ids, d) =>
             /\ FilledPartially(d)
             /\ balance'[request'.user_id] =
                   balance[request'.user_id] - CostOf(Store, ids)
                      - (request'.qty - d) * request'.price]_vars

\* C21 -- A funded limit BID of qty at p against crossing ASK depth d < qty
\* fills d units at the resting prices, is stored PARTIALLY_EXECUTED with
\* filled = d and amount = qty - d, and the buyer's available cash decreases
\* by the cost of the fills against other users' ASKs plus (qty - d) x p:
\* what the buyer pays for an ASK of their own comes back to them as seller.
PartialBidPaysOthersFills ==
    [][\A ids \in SUBSET (1..Len(orders)), d \in 1..MaxQty :
          PartialCrossBid(ids, d) =>
             /\ FilledPartially(d)
             /\ balance'[request'.user_id] =
                   balance[request'.user_id]
                      - CostOf(Store, OfOthers(ids, request'.user_id))
                      - (request'.qty - d) * request'.price]_vars

\* A limit BID of two took one unit from another user's ASK and rests for
\* the other unit.
PartialBidPaysOthersFillsWitness ==
    /\ request.op = "create_order"
    /\ request.direction = "BUY"
    /\ request.price # None
    /\ request.qty = 2
    /\ response.status_code = HTTP_200_OK
    /\ Len(fills) = 1
    /\ orders[fills[1].resting].user_id # request.user_id
    /\ orders[fills[1].resting].status = EXECUTED
    /\ orders[Len(orders)].status = PARTIALLY_EXECUTED
    /\ orders[Len(orders)].amount = 1

\* C22 -- An admin deposit answered with success leaves the committed
\* holdings of the ticker, which every later request reads, larger by the
\* amount, and a withdrawal answered with success leaves them smaller by it.
AcknowledgedChangeIsCommitted ==
    [][(/\ request'.op \in {"deposit_balance", "withdraw_balance"}
        /\ response'.status_code = HTTP_200_OK) =>
          Available(Store', request'.user_id, request'.ticker) =
             Available(Store, request'.user_id, request'.ticker)
                + (IF request'.op = "deposit_balance"
                   THEN request'.amount ELSE 0 - request'.amount)]_vars

\* The step's request withdraws more of a ticker than the user has available.
WithdrawBeyondAvailable ==
    /\ request'.op = "withdraw_balance"
    /\ Available(Store, request'.user_id, request'.ticker) < request'.amount

\* C23 -- A withdrawal of more than the user's available holdings of the
\* ticker is refused with InsufficientBalanceError (400) and leaves every
\* balance, inventory and order, whatever the user's resting orders hold
\* frozen.
WithdrawBeyondAvailableRefused ==
    [][WithdrawBeyondAvailable =>
          /\ response'.status_code = HTTP_400_BAD_REQUEST
          /\ response'.detail = "Insufficient balance"
          /\ StoreUnchanged]_vars

\* A withdrawal was refused although the user's resting orders hold the
\* amount frozen.
WithdrawBeyondAvailableRefusedWitness ==
    /\ request.op = "withdraw_balance"
    /\ response.status_code = HTTP_400_BAD_REQUEST
    /\ Available(Store, request.user_id, request.ticker) < request.amount
    /\ Frozen(Store, request.user_id, request.ticker) >= request.amount

\* C24 -- A registration answered with success leaves the new user in the
\* committed store with an inventory row of quantity zero for every listed
\* instrument, and an instrument creation answered with success leaves the
\* ticker listed with a row of quantity zero for every user.
CreationPopulatesRows ==
    [][/\ (request'.op = "register" /\ response'.status_code = HTTP_200_OK) =>
             /\ HasUser(Store', request'.name)
             /\ \A ticker \in instruments' :
                   /\ HasInventory(Store', request'.name, ticker)
                   /\ inventory'[<<request'.name, ticker>>] = 0
       /\ (request'.op = "create_instrument" /\ response'.status_code = HTTP_200_OK) =>
             /\ request'.ticker \in instruments'
             /\ \A u \in DOMAIN balance' :
                   /\ HasInventory(Store', u, request'.ticker)
                   /\ inventory'[<<u, request'.ticker>>] = 0]_vars

Crossing ==
    { r \in Resting(Store, request'.ticker, Opposite(request'.direction)) :
        \/ request'.price = None
        \/ request'.direction = "BUY" /\ orders[r].price <= request'.price
        \/ request'.direction = "SELL" /\ orders[r].price >= request'.price }

\* C26 -- An incoming limit order never trades through its limit: each fill
\* and each trade of a limit BID is at a price <= its limit, of a limit ASK
\* at a price >= its limit, and matching stops at the first resting order
\* beyond the limit; a market order matches resting orders whatever their
\* price.  Unless a settlement or the freeze is refused for lack of funds,
\* the fills total min(qty, amount resting within the limit).
NeverTradesThroughLimit ==
    [][request'.op = "create_order" =>
          /\ \A k \in 1..Len(fills') : fills'[k].resting \in Crossing
          /\ \A k \in (Len(transactions) + 1)..Len(transactions') :
                request'.price # None =>
                   IF request'.direction = "BUY"
                   THEN transactions'[k].price <= request'.price
                   ELSE transactions'[k].price >= request'.price
          /\ response'.detail # "Insufficient balance" =>
                FillsTotal(fills', Len(fills')) =
                   Min(request'.qty, RestingQtyOf(Store, Crossing))]_vars

\* A limit BID took the ASK priced at its limit and stopped at a dearer one,
\* which still rests.
NeverTradesThroughLimitWitness ==
    /\ request.op = "create_order"
    /\ request.direction = "BUY"
    /\ request.price = 1
    /\ request.qty = 2
    /\ response.status_code = HTTP_200_OK
    /\ Len(fills) = 1
    /\ orders[Len(orders)].status = PARTIALLY_EXECUTED
    /\ \E r \in Resting(Store, request.ticker, ASK) : orders[r].price = 2

\* a is the beginning of b.
IsPrefix(a, b) == Len(a) <= Len(b) /\ a = SubSeq(b, 1, Len(a))

\* C27 -- Capping the book read at the incoming order's quantity never
\* changes the result: in every committed state and for every order that may
\* be submitted, the handler run on the first qty resting orders in priority
\* order leaves the same store (fills, residue, statuses), response and fills
\* as the handler run on the whole opposite side.
CappedReadSameResult ==
    \A user_id \in Users, direction \in {"BUY", "SELL"}, ticker \in instruments,
       qty \in 1..MaxQty, price \in {None} \cup (1..MaxPrice) :
       \A whole \in get_orders(Store, ticker, Opposite(direction), Len(orders)) :
          \A capped \in get_orders(Store, ticker, Opposite(direction), qty) :
             IsPrefix(capped, whole) =>
                create_order(Store, capped,
                             [direction |-> direction, ticker |-> ticker,
                              qty |-> qty, price |-> price], user_id)
                = create_order(Store, whole,
                               [direction |-> direction, ticker |-> ticker,
                                qty |-> qty, price |-> price], user_id)

\* An order of one unit was filled from a book that holds another resting
\* order on the same side, which the capped read left out.
CappedReadSameResultWitness ==
    /\ request.op = "create_order"
    /\ request.qty = 1
    /\ response.status_code = HTTP_200_OK
    /\ Len(fills) = 1
    /\ \E r \in Resting(Store, request.ticker, Opposite(request.direction)) :
          r # fills[1].resting

\* The cost (amount x resting price) of the first n fills of posted that were
\* made against resting orders of the users us.
RECURSIVE FillsCostFrom(_, _, _)
FillsCostFrom(posted, n, us) ==
    IF n = 0 THEN 0
    ELSE (IF orders[posted[n].resting].user_id \in us
          THEN posted[n].amount * orders[posted[n].resting].price ELSE 0)
         + FillsCostFrom(posted, n - 1, us)

\* What the step's limit order freezes for its residue, in units.
ResidueOf(posted) ==
    IF request'.price = None THEN 0 ELSE request'.qty - FillsTotal(posted, Len(posted))

\* Each resting order filled by the step gave up exactly the fill's amount.
FillsTakenFromResidue ==
    \A k \in 1..Len(fills') :
       orders'[fills'[k].resting].amount =
          orders[fills'[k].resting].amount - fills'[k].amount

\* C28 -- When a committed incoming BID fills resting ASKs, every other
\* user's stored inventory of the ticker is unchanged (the units come out of
\* the resting orders' remaining amount), every other user's cash grows by
\* amount x price of the fills against their ASKs, and the buyer's inventory
\* grows by the units filled while the buyer's cash falls by the cost of the
\* fills against other users plus what the residue freezes.
BidSettlesFromFrozenUnits ==
    [][(/\ request'.op = "create_order"
        /\ request'.direction = "BUY"
        /\ response'.status_code = HTTP_200_OK) =>
          /\ FillsTakenFromResidue
          /\ \A u \in Users \ {request'.user_id} :
                /\ inventory'[<<u, request'.ticker>>] = inventory[<<u, request'.ticker>>]
                /\ balance'[u] = balance[u] + FillsCostFrom(fills', Len(fills'), {u})
          /\ inventory'[<<request'.user_id, request'.ticker>>] =
                inventory[<<request'.user_id, request'.ticker>>]
                   + FillsTotal(fills', Len(fills'))
          /\ balance'[request'.user_id] =
                balance[request'.user_id]
                   - FillsCostFrom(fills', Len(fills'), Users \ {request'.user_id})
                   - ResidueOf(fills') * request'.price]_vars

\* A market BUY was filled whole from another user's resting ASK.
BidSettlesFromFrozenUnitsWitness ==
    /\ request.op = "create_order"
    /\ request.direction = "BUY"
    /\ request.price = None
    /\ response.status_code = HTTP_200_OK
    /\ Len(fills) > 0
    /\ \A k \in 1..Len(fills) : orders[fills[k].resting].user_id # request.user_id

\* The units of the first n fills of posted that were made against resting
\* orders of the users us.
RECURSIVE FillsUnitsFrom(_, _, _)
FillsUnitsFrom(posted, n, us) ==
    IF n = 0 THEN 0
    ELSE (IF orders[posted[n].resting].user_id \in us THEN posted[n].amount ELSE 0)
         + FillsUnitsFrom(posted, n - 1, us)

\* Each resting order filled by the step lost the fill's amount and no more.
FillsPaidFromResidue ==
    \A k \in 1..Len(fills') :
       /\ orders'[fills'[k].resting].amount =
             orders[fills'[k].resting].amount - fills'[k].amount
       /\ orders'[fills'[k].resting].price = orders[fills'[k].resting].price

\* C29 -- When a committed incoming ASK fills resting BIDs, every other
\* user's stored cash is unchanged (the payment comes out of what the
\* resting orders hold frozen), every other user's inventory grows by the
\* units of the fills against their BIDs, and the seller's cash grows by
\* amount x resting price of every fill while the seller's inventory falls by
\* the units filled against other users plus the residue frozen.
AskSettlesFromFrozenCash ==
    [][(/\ request'.op = "create_order"
        /\ request'.direction = "SELL"
        /\ response'.status_code = HTTP_200_OK) =>
          /\ FillsPaidFromResidue
          /\ \A u \in Users \ {request'.user_id} :
                /\ balance'[u] = balance[u]
                /\ inventory'[<<u, request'.ticker>>] =
                      inventory[<<u, request'.ticker>>]
                         + FillsUnitsFrom(fills', Len(fills'), {u})
          /\ balance'[request'.user_id] =
                balance[request'.user_id] + FillsCostFrom(fills', Len(fills'), Users)
          /\ inventory'[<<request'.user_id, request'.ticker>>] =
                inventory[<<request'.user_id, request'.ticker>>]
                   - FillsUnitsFrom(fills', Len(fills'), Users \ {request'.user_id})
                   - ResidueOf(fills')]_vars

\* A market SELL was filled whole from another user's resting BID.
AskSettlesFromFrozenCashWitness ==
    /\ request.op = "create_order"
    /\ request.direction = "SELL"
    /\ request.price = None
    /\ response.status_code = HTTP_200_OK
    /\ Len(fills) > 0
    /\ \A k \in 1..Len(fills) : orders[fills[k].resting].user_id # request.user_id

\* C30 -- In every committed state a resting order (NEW or
\* PARTIALLY_EXECUTED) is NEW exactly when filled = 0 and PARTIALLY_EXECUTED
\* exactly when filled > 0, and then has amount > 0, whether it is an
\* incoming limit order left with residue or a resting order hit by a fill.
RestingStatusFollowsFilled ==
    \A i \in 1..Len(orders) :
       orders[i].status \in {NEW_, PARTIALLY_EXECUTED} =>
          /\ orders[i].status = NEW_ <=> orders[i].filled = 0
          /\ orders[i].status = PARTIALLY_EXECUTED <=>
                (orders[i].filled > 0 /\ orders[i].amount > 0)

\* The last request left a resting order it hit PARTIALLY_EXECUTED beside an
\* untouched NEW one.
RestingStatusFollowsFilledWitness ==
    /\ request.op = "create_order"
    /\ response.status_code = HTTP_200_OK
    /\ \E k \in 1..Len(fills) :
          /\ orders[fills[k].resting].status = PARTIALLY_EXECUTED
          /\ orders[fills[k].resting].filled > 0
    /\ \E j \in 1..Len(orders) : orders[j].status = NEW_ /\ orders[j].filled = 0

\* The changes of status the code makes to a stored order.
ForwardTransitions ==
    { <<NEW_, PARTIALLY_EXECUTED>>, <<NEW_, EXECUTED>>,
      <<PARTIALLY_EXECUTED, EXECUTED>>, <<NEW_, CANCELLED>> }

\* C31 -- Order status only moves forward: no request removes an order; a
\* committed order's status changes only NEW -> PARTIALLY_EXECUTED,
\* NEW -> EXECUTED, PARTIALLY_EXECUTED -> EXECUTED or NEW -> CANCELLED (or
\* stays PARTIALLY_EXECUTED through a further fill); an EXECUTED or CANCELLED
\* order never changes again and no request matches against it.
StatusMovesForward ==
    [][/\ Len(orders') >= Len(orders)
       /\ \A i \in 1..Len(orders) :
             /\ orders'[i].status # orders[i].status =>
                   <<orders[i].status, orders'[i].status>> \in ForwardTransitions
             /\ orders[i].status \in {EXECUTED, CANCELLED} =>
                   /\ orders'[i] = orders[i]
                   /\ \A k \in 1..Len(fills') : fills'[k].resting # i]_vars

\* A submission was matched while the book holds a cancelled order and an
\* executed one on the side it read.
StatusMovesForwardWitness ==
    /\ request.op = "create_order"
    /\ response.status_code = HTTP_200_OK
    /\ Len(fills) > 0
    /\ \E i, j \in 1..Len(orders) :
          /\ orders[i].status = CANCELLED
          /\ orders[j].status = EXECUTED
          /\ orders[i].direction = orders[j].direction
          /\ j = fills[1].resting
          /\ i < j

\* The step's request is a cancellation answered with success.
CancelSucceeded ==
    /\ request'.op = "cancel_order"
    /\ response'.status_code = HTTP_200_OK

\* C32 -- A successful cancellation changes only the cancelled order's
\* status and its owner's available funds: the order keeps its amount and
\* filled, every other order and every trade is unchanged, no other user's
\* cash or inventory changes, and the owner gets back amount x price of cash
\* for a BID or amount units of the ticker for an ASK and nothing else.
CancelChangesOnlyItsOrder ==
    [][CancelSucceeded =>
          LET id == request'.order_id
              o  == orders[id]
          IN  /\ orders' = [orders EXCEPT ![id].status = CANCELLED]
              /\ transactions' = transactions
              /\ instruments' = instruments
              /\ \A u \in Users \ {o.user_id} : balance'[u] = balance[u]
              /\ \A r \in DOMAIN inventory :
                    (r[1] # o.user_id \/ r[2] # o.instrument_ticker) =>
                       inventory'[r] = inventory[r]
              /\ DOMAIN inventory' = DOMAIN inventory
              /\ IF o.direction = BID
                 THEN /\ balance'[o.user_id] = balance[o.user_id] + o.amount * o.price
                      /\ inventory'[<<o.user_id, o.instrument_ticker>>] =
                            inventory[<<o.user_id, o.instrument_ticker>>]
                 ELSE /\ balance'[o.user_id] = balance[o.user_id]
                      /\ inventory'[<<o.user_id, o.instrument_ticker>>] =
                            inventory[<<o.user_id, o.instrument_ticker>>] + o.amount]_vars

\* A cancellation succeeded in a store that holds a trade and its two
\* executed orders.
CancelChangesOnlyItsOrderWitness ==
    /\ request.op = "cancel_order"
    /\ response.status_code = HTTP_200_OK
    /\ orders[request.order_id].status = CANCELLED
    /\ orders[request.order_id].amount > 0
    /\ Len(transactions) > 0
    /\ Len(orders) = 3

\* C33 -- The funds or units an order reserves are released once, however a
\* cancellation and a submission that matches the order overlap: a
\* cancellation that succeeds finds the order still NEW in the committed
\* store and leaves every ticker's total holdings (available plus frozen)
\* as they were, and a committed fill is never against an order the
\* committed store holds as CANCELLED.
ReservedReleasedOnce ==
    [][/\ CancelSucceeded =>
             /\ orders[request'.order_id].status = NEW_
             /\ \A ticker \in Tickers :
                   TotalHoldings(Store', ticker) = TotalHoldings(Store, ticker)
       /\ (request'.op = "create_order" /\ response'.status_code = HTTP_200_OK) =>
             \A k \in 1..Len(fills') :
                orders[fills'[k].resting].status # CANCELLED]_vars

\* Every stored order is on an instrument of its own.
OneOrderPerInstrument ==
    \A i, j \in 1..Len(orders) :
       i # j => orders[i].instrument_ticker # orders[j].instrument_ticker

\* C34 -- Submissions on different instruments do not lose an update of a
\* user's cash: while every stored order is on an instrument of its own,
\* each user's available cash plus the cash frozen in their resting orders
\* plus the cash paid (less the cash received) in their trades is the cash
\* they started with, and no more than that is frozen.
ParallelBidsKeepCash ==
    OneOrderPerInstrument =>
       \A u \in Users :
          /\ balance[u] + Frozen(Store, u, base_instrument_ticker)
                - TradeEffect(Store, u, base_instrument_ticker, 0) = InitCash
          /\ Frozen(Store, u, base_instrument_ticker) <= InitCash

\* C35: a step that changes the committed store is the last step of a
\* POST /order or DELETE /order request answered with success, so a request
\* commits at most once and after all its postings; a request aborted before
\* its commit, or answered with an error, leaves the committed store as it was.
CommitOnceAfterPostings ==
    [][/\ (request' # request /\ request'.op = "aborted")
            => UNCHANGED <<balance, inventory, orders, transactions, instruments>>
       /\ ~(UNCHANGED <<balance, inventory, orders, transactions, instruments>>)
            => /\ request'.op \in {"create_order", "cancel_order"}
               /\ response'.status_code = HTTP_200_OK
               /\ Cardinality(InFlight) = Cardinality(InFlight') + 1]_vars

\* A submission was aborted after its matching loop had posted a fill.
CommitOnceAfterPostingsWitness ==
    /\ request.op = "aborted"
    /\ request.of = "create_order"
    /\ request.trades > 0

\* Sum of filled over the first n orders of one instrument and direction.
RECURSIVE FilledOf(_, _, _, _)
FilledOf(s, ticker, direction, n) ==
    IF n = 0 THEN 0
    ELSE FilledOf(s, ticker, direction, n - 1)
            + (IF /\ s.orders[n].instrument_ticker = ticker
                  /\ s.orders[n].direction = direction
               THEN s.orders[n].filled ELSE 0)

\* Sum of the amounts of the first n trades of one instrument.
RECURSIVE TradedOf(_, _, _)
TradedOf(s, ticker, n) ==
    IF n = 0 THEN 0
    ELSE TradedOf(s, ticker, n - 1)
            + (IF s.transactions[n].instrument_ticker = ticker
               THEN s.transactions[n].amount ELSE 0)

\* C36: for every instrument the filled of all BID orders, the filled of all
\* ASK orders and the amounts of all trades have the same sum, and an
\* accepted submission's order is filled by the sum of the fills it posted.
FilledMatchesTrades ==
    /\ \A ticker \in instruments :
          /\ FilledOf(Store, ticker, BID, Len(orders)) = TradedOf(Store, ticker, Len(transactions))
          /\ FilledOf(Store, ticker, ASK, Len(orders)) = TradedOf(Store, ticker, Len(transactions))
    /\ (request.op = "create_order" /\ response.status_code = HTTP_200_OK)
          => orders[response.order_id].filled = FillsTotal(fills, Len(fills))

\* An incoming order was filled against two resting orders.
FilledMatchesTradesWitness ==
    /\ request.op = "create_order"
    /\ response.status_code = HTTP_200_OK
    /\ Len(fills) = 2
    /\ Len(transactions) = 2
    /\ orders[response.order_id].filled = 2

\* The submission of the step posted fills, all of them against resting
\* orders of the submitting user.
SelfTrade ==
    /\ request'.op = "create_order"
    /\ Len(fills') > 0
    /\ \A k \in 1..Len(fills') : orders[fills'[k].resting].user_id = request'.user_id

\* C37: a submission that fills against resting orders of its own user
\* leaves every user's available plus frozen holdings of cash and of the
\* ticker as they were.
SelfTradeKeepsHoldings ==
    [][SelfTrade =>
          \A u \in Users, ticker \in Tickers :
             Available(Store', u, ticker) + Frozen(Store', u, ticker) =
                Available(Store, u, ticker) + Frozen(Store, u, ticker)]_vars

\* An accepted submission was filled against its user's own resting order
\* and stored a trade between the user and themselves.
SelfTradeKeepsHoldingsWitness ==
    /\ request.op = "create_order"
    /\ response.status_code = HTTP_200_OK
    /\ Len(fills) > 0
    /\ \A k \in 1..Len(fills) : orders[fills[k].resting].user_id = request.user_id
    /\ transactions[Len(transactions)].user_from_id = request.user_id
    /\ transactions[Len(transactions)].user_to_id = request.user_id

\* The last request was an order book query that was answered.
OrderbookAnswered ==
    /\ request.op = "get_orderbook"
    /\ response.status_code = HTTP_200_OK

\* Total remaining amount of the NEW and PARTIALLY_EXECUTED orders among the
\* first n orders that are of ticker and direction at price.
RECURSIVE DepthUpTo(_, _, _, _)
DepthUpTo(ticker, direction, price, n) ==
    IF n = 0 THEN 0
    ELSE DepthUpTo(ticker, direction, price, n - 1)
            + (IF /\ orders[n].instrument_ticker = ticker
                  /\ orders[n].direction = direction
                  /\ orders[n].price = price
                  /\ orders[n].status \in {NEW_, PARTIALLY_EXECUTED}
               THEN orders[n].amount ELSE 0)

DepthAt(ticker, direction, price) == DepthUpTo(ticker, direction, price, Len(orders))

\* The prices at which ticker has depth in direction.
PricesOf(ticker, direction) ==
    { p \in 1..MaxPrice : DepthAt(ticker, direction, p) > 0 }

\* C38: the order book query answers with levels of distinct prices, bids
\* in strictly descending and asks in strictly ascending order of price, and
\* a level holds a positive quantity of at most what the NEW and
\* PARTIALLY_EXECUTED orders of its side have left at its price.
LevelsSortedByPrice ==
    OrderbookAnswered =>
       /\ \A i, j \in 1..Len(response.bid_levels) :
             i < j => response.bid_levels[i].price > response.bid_levels[j].price
       /\ \A i, j \in 1..Len(response.ask_levels) :
             i < j => response.ask_levels[i].price < response.ask_levels[j].price
       /\ \A i \in 1..Len(response.bid_levels) :
             /\ response.bid_levels[i].qty > 0
             /\ response.bid_levels[i].qty
                   <= DepthAt(request.ticker, BID, response.bid_levels[i].price)
       /\ \A i \in 1..Len(response.ask_levels) :
             /\ response.ask_levels[i].qty > 0
             /\ response.ask_levels[i].qty
                   <= DepthAt(request.ticker, ASK, response.ask_levels[i].price)

\* A query answered with two bid levels while a cancelled BID is in the
\* store.
LevelsSortedByPriceWitness ==
    /\ OrderbookAnswered
    /\ Len(response.bid_levels) = 2
    /\ \E j \in 1..Len(orders) :
          orders[j].direction = BID /\ orders[j].status = CANCELLED

\* The levels are the best Min(limit, number of prices) prices of the side,
\* each with the whole depth at its price.
WholeLevels(levels, ticker, direction, limit) ==
    /\ Len(levels) = Min(limit, Cardinality(PricesOf(ticker, direction)))
    /\ \A i \in 1..Len(levels) :
          /\ levels[i].qty = DepthAt(ticker, direction, levels[i].price)
          /\ \A p \in PricesOf(ticker, direction) \ { levels[k].price : k \in 1..Len(levels) } :
                IF direction = BID THEN p < levels[i].price ELSE p > levels[i].price

\* C39: every level of an order book answer holds the total remaining amount
\* of the resting orders at its price on its side, and each side has the
\* best Min(limit, number of distinct prices) levels.
LevelsHoldWholeDepth ==
    OrderbookAnswered =>
       /\ WholeLevels(response.bid_levels, request.ticker, BID, request.limit)
       /\ WholeLevels(response.ask_levels, request.ticker, ASK, request.limit)

====
